---- MODULE Spec2Model ----
(***************************************************************************)
(* The output router of yt_dlp/output/logging.py: the Logger, its output   *)
(* backends, its setup operations, the emission pipeline of Logger.log and *)
(* the bidi workaround round trip.                                         *)
(*                                                                         *)
(* Python values are tagged records: None, Str(chars), List(items) and     *)
(* TextIO(name, isatty, encoding).  A text is a sequence of one-character  *)
(* strings.                                                                *)
(***************************************************************************)
EXTENDS Integers, Sequences, FiniteSets, TLC

VARIABLES
    verbosity,        \* Logger._verbosity
    allow_color,      \* Logger._allow_color
    pref_encoding,    \* Logger._pref_encoding
    mapping,          \* Logger.mapping: a dict, DOMAIN mapping are its keys
    message_cache,    \* Logger._message_cache
    bidi_initalized,  \* Logger._bidi_initalized
    bidi_process,     \* the subprocess behind Logger._bidi_writer ("" before activation)
    bidi_reader,      \* Logger._bidi_reader: the output lines of the subprocess not read yet
    pc,               \* the caller: "ready", "returned", "raised" or "blocked"
    call,             \* the public method the caller invoked, with its arguments
    last,             \* what that invocation did inside Logger.log
    history,          \* observer: the invocations so far, oldest first
    derived,          \* the _LoggerProxy the caller got from make_derived, None before
    deprecation_cache, \* the messages utils.deprecation_warning has reported
    threads           \* the Logger.log call of each concurrent caller: its frame

vars == <<verbosity, allow_color, pref_encoding, mapping, message_cache,
          bidi_initalized, bidi_process, bidi_reader, pc, call, last, history,
          derived, deprecation_cache, threads>>

config == <<verbosity, allow_color, pref_encoding>>
bidi == <<bidi_initalized, bidi_process, bidi_reader>>

\* what lives outside the Logger object
outside == <<derived, deprecation_cache, threads>>

-----------------------------------------------------------------------------
(* Python values *)

None == [type |-> "NoneType"]
Str(chars) == [type |-> "str", chars |-> chars]
List(items) == [type |-> "list", items |-> items]
Bool(b) == [type |-> "bool", value |-> b]
TextIO(name, isatty, encoding) ==
    [type |-> "TextIO", name |-> name, isatty |-> isatty, encoding |-> encoding]

NL == "\n"
CR == "\r"
TAB == "\t"
Whitespace == {" ", NL, CR, TAB}

\* `assert message` in place of the isinstance test: an empty text fails it
isinstance_str_nonempty(x) == x.type = "str" /\ x.chars # <<>>

isinstance_str(x) == x.type = "str"

\* bool(x) of the values that reach an `if x:` in the module
truthy(x) ==
    CASE x.type = "NoneType" -> FALSE
      [] x.type = "str" -> x.chars # <<>>
      [] x.type = "list" -> x.items # <<>>
      [] x.type = "bool" -> x.value
      [] OTHER -> TRUE

\* str.count of one character
RECURSIVE count(_, _)
count(s, c) ==
    IF s = <<>> THEN 0
    ELSE (IF Head(s) = c THEN 1 ELSE 0) + count(Tail(s), c)

\* str.rstrip()
RECURSIVE rstrip(_)
rstrip(s) ==
    IF s = <<>> \/ s[Len(s)] \notin Whitespace THEN s
    ELSE rstrip(SubSeq(s, 1, Len(s) - 1))

\* str.lstrip()
RECURSIVE lstrip(_)
lstrip(s) ==
    IF s = <<>> \/ Head(s) \notin Whitespace THEN s
    ELSE lstrip(Tail(s))

startswith(s, p) == Len(s) >= Len(p) /\ SubSeq(s, 1, Len(p)) = p

\* sep.join(parts), parts a sequence of texts
RECURSIVE join(_, _)
join(sep, parts) ==
    IF parts = <<>> THEN <<>>
    ELSE IF Len(parts) = 1 THEN parts[1]
    ELSE parts[1] \o sep \o join(sep, Tail(parts))

\* utils.variadic: one text becomes a 1-tuple, a list stays as it is
variadic(x) == IF x.type = "list" THEN x.items ELSE <<x>>

\* str(x) of a text
str(x) == x.chars

-----------------------------------------------------------------------------
(* LogLevel, Verbosity *)

SCREEN == 0
PROGRESS == 1
DEBUG == 10
INFO == 20
WARNING == 30
ERROR == 40
LogLevel == {SCREEN, PROGRESS, DEBUG, INFO, WARNING, ERROR}

QUIET == 0
NORMAL == 1
VERBOSE == 2
Verbosity == {QUIET, NORMAL, VERBOSE}

-----------------------------------------------------------------------------
(* Output backends *)

\* utils.supports_terminal_sequences: the stream is a terminal
supports_terminal_sequences(stream) == stream.isatty

NULL_OUTPUT == [class |-> "NullOutput"]

StreamOutput(stream, use_color, encoding) ==
    [class |-> "StreamOutput", stream |-> stream, encoding |-> encoding,
     use_color |-> use_color /\ supports_terminal_sequences(stream)]

ClassOutput(func) == [class |-> "ClassOutput", logging_function |-> func]

LoggingOutput(level) == [class |-> "LoggingOutput", level |-> level]

\* allow_bidi set on the base class, for every backend
allow_bidi_always(logger) == TRUE

\* the class attribute allow_bidi
allow_bidi(logger) == logger.class = "StreamOutput"

\* the attribute use_color: a class attribute, False, but for a StreamOutput
use_color(logger) == logger.class = "StreamOutput" /\ logger.use_color

\* hoodoo.format_text: the codes of the formats, the text, the reset code
RESET == "<reset>"
format_text(text, text_formats) == text_formats \o text \o <<RESET>>

\* _OutputBase.format(text, *text_formats)
OutputBase_format(logger, text, text_formats) ==
    IF ~use_color(logger) THEN text ELSE format_text(text, text_formats)

\* the terminal codes of Style
Style_ERROR == "<red>"
Style_WARNING == "<yellow>"

\* the characters an encoding cannot encode
NonAscii == {"\\u00e9"}
ASCII == <<"a", "s", "c", "i", "i">>
UTF8 == <<"u", "t", "f", "-", "8">>
unencodable(encoding) == IF encoding = ASCII THEN NonAscii ELSE {}

\* text.encode(encoding, 'ignore').decode(encoding)
RECURSIVE encode_ignore_decode(_, _)
encode_ignore_decode(text, encoding) ==
    IF text = <<>> THEN <<>>
    ELSE (IF Head(text) \in unencodable(encoding) THEN <<>> ELSE <<Head(text)>>)
         \o encode_ignore_decode(Tail(text), encoding)

\* bool(logger) had NullOutput no __bool__: every backend object is truthy
bool_without_NullOutput_bool(logger) == "class" \in DOMAIN logger

\* `not logger` is true of None and of the NullOutput, whose __bool__ is False
bool(logger) ==
    IF "class" \in DOMAIN logger THEN logger.class # "NullOutput" ELSE FALSE

-----------------------------------------------------------------------------
(* What a backend hands to its destination *)

\* a bound method of the object given to setup_class_logger
Method(obj, name) == [type |-> "method", self |-> obj, name |-> name]

\* the logging facility at one severity
LoggingLogger(level) == [type |-> "logging", level |-> level]

\* utils.write_string: the stream receives the message as it is
write_string(message, stream, encoding) == [to |-> stream, text |-> message]

StreamOutput_log(logger, message) ==
    write_string(message, logger.stream, logger.encoding)

\* the callback given the message as it is
ClassOutput_log_unstripped(logger, message) ==
    [to |-> logger.logging_function, text |-> message]

ClassOutput_log(logger, message) ==
    [to |-> logger.logging_function, text |-> rstrip(message)]

\* s.partition(sep)[2], sep one character
RECURSIVE partition_tail(_, _)
partition_tail(s, sep) ==
    IF s = <<>> THEN <<>>
    ELSE IF Head(s) = sep THEN Tail(s)
    ELSE partition_tail(Tail(s), sep)

removable_prefixes ==
    << <<"[", "d", "e", "b", "u", "g", "]", " ">>,
       <<"E", "R", "R", "O", "R", ":", " ">>,
       <<"W", "A", "R", "N", "I", "N", "G", ":", " ">> >>

RECURSIVE remove_prefixes(_, _)
remove_prefixes(message, prefixes) ==
    IF prefixes = <<>> THEN message
    ELSE remove_prefixes(
            IF startswith(message, Head(prefixes))
            THEN SubSeq(message, Len(Head(prefixes)) + 1, Len(message))
            ELSE message,
            Tail(prefixes))

LoggingOutput_log(logger, message) ==
    LET m1 == remove_prefixes(rstrip(message), removable_prefixes)
        m2 == IF startswith(m1, <<"[">>) THEN lstrip(partition_tail(m1, "]")) ELSE m1
    IN [to |-> LoggingLogger(logger.level), text |-> m2]

\* a stream backend writing the text and its last character separately
backend_log_split(logger, message) ==
    IF logger.class = "StreamOutput" /\ message # <<>>
    THEN <<StreamOutput_log(logger, SubSeq(message, 1, Len(message) - 1)),
           StreamOutput_log(logger, <<message[Len(message)]>>)>>
    ELSE <<>>

\* logger.log(message): the deliveries it makes, in order
backend_log(logger, message) ==
    CASE logger.class = "StreamOutput" -> <<StreamOutput_log(logger, message)>>
      [] logger.class = "ClassOutput" -> <<ClassOutput_log(logger, message)>>
      [] logger.class = "LoggingOutput" -> <<LoggingOutput_log(logger, message)>>
      [] OTHER -> <<>>

-----------------------------------------------------------------------------
(* The bidi workaround round trip *)

RECURSIVE Reverse(_)
Reverse(s) == IF s = <<>> THEN <<>> ELSE Append(Reverse(Tail(s)), Head(s))

\* the reshaping subprocess reshapes one line: here it reverses it
Reshape(line) == Reverse(line)

\* the pseudo-terminal of pty.openpty() the subprocess prints to: its line
\* discipline (ONLCR, the default) turns a newline into CR LF
pty_newline == <<CR, NL>>

\* what the reader end receives for the data written to the subprocess: one
\* reshaped line, with its line ending, per newline-terminated input line
RECURSIVE subprocess_output(_, _)
subprocess_output(data, cur) ==
    IF data = <<>> THEN <<>>
    ELSE IF Head(data) = NL
         THEN <<Reshape(cur) \o pty_newline>> \o subprocess_output(Tail(data), <<>>)
         ELSE subprocess_output(Tail(data), Append(cur, Head(data)))

\* io.BufferedReader.readlines(hint), hint > 0: lines are taken while the
\* total size of the lines taken so far does not exceed hint; with the pipe
\* empty and the subprocess alive the read waits for another line
RECURSIVE readlines(_, _, _, _)
readlines(pending, hint, length, taken) ==
    IF pending = <<>>
    THEN [lines |-> taken, rest |-> <<>>, blocked |-> TRUE]
    ELSE IF Len(Head(pending)) > hint - length
         THEN [lines |-> Append(taken, Head(pending)), rest |-> Tail(pending),
               blocked |-> FALSE]
         ELSE readlines(Tail(pending), hint, length + Len(Head(pending)),
                        Append(taken, Head(pending)))

RECURSIVE concat(_)
concat(parts) == IF parts = <<>> THEN <<>> ELSE Head(parts) \o concat(Tail(parts))

\* Logger._apply_bidi_workaround on the text `message` with `reader` unread
apply_bidi_workaround(message, reader) ==
    LET line_count == count(message, NL) + 1
        sent == message \o <<NL>>
        got == readlines(reader \o subprocess_output(sent, <<>>), line_count, 0, <<>>)
        result == concat(got.lines)
    IN [sent |-> sent,
        line_count |-> line_count,
        lines |-> got.lines,
        reader |-> got.rest,
        blocked |-> got.blocked,
        result |-> SubSeq(result, 1, Len(result) - 1)]

-----------------------------------------------------------------------------
(* The streams, callback objects and texts the callers pass in *)

STDOUT == TextIO("stdout", FALSE, Str(UTF8))
STDERR == TextIO("stderr", TRUE, None)
LOGFILE == TextIO("logfile", FALSE, Str(ASCII))

\* the object given to setup_class_logger
ClassLoggers == {"ydl_logger"}

\* the state of sys.exc_info() at the call: no exception being handled, an
\* exception, or an exception that carries its own exc_info
ExcInfo == {"none", "plain", "nested"}

\* the texts of the traceback module, each a block ending in a newline
format_exception == <<"<exception>", NL>>
format_exc == <<"<traceback>", NL>>
format_stack == <<"<stack>", NL>>

-----------------------------------------------------------------------------
(* Logger *)

NoCall == [method |-> "none"]
NoLog == [status |-> "none"]

\* Logger.__init__(screen, verbosity, encoding=..., allow_color=...)
Logger_init(screen, verbosity_, encoding, allow_color_) ==
    /\ bidi_initalized = FALSE
    /\ bidi_process = ""
    /\ bidi_reader = <<>>
    /\ message_cache = {}
    /\ pref_encoding = encoding
    /\ allow_color = allow_color_
    /\ verbosity = verbosity_
    /\ mapping = (SCREEN :> (IF screen = None THEN NULL_OUTPUT
                             ELSE StreamOutput(screen, allow_color_, encoding)))
    /\ pc = "ready"
    /\ call = NoCall
    /\ last = NoLog
    /\ history = <<>>

\* the callers that may run Logger.log concurrently with each other
Callers == {1, 2}

\* a caller that is not inside Logger.log
Idle == [pc |-> "idle"]

\* no proxy made yet, nothing reported by utils.deprecation_warning yet, no
\* call of Logger.log in flight
Outside_init ==
    /\ derived = None
    /\ deprecation_cache = {}
    /\ threads = [t \in Callers |-> Idle]

\* self.mapping.get(level)
mapping_get(level) == IF level \in DOMAIN mapping THEN mapping[level] ELSE None

\* setdefault in place of update: a level already mapped keeps its backend
update_keeping(d, other) ==
    [k \in DOMAIN d \cup DOMAIN other |-> IF k \in DOMAIN d THEN d[k] ELSE other[k]]

\* the mapping replaced by `other` instead of updated with it
update_replacing(d, other) == other

\* d.update(other)
update(d, other) ==
    [k \in DOMAIN d \cup DOMAIN other |-> IF k \in DOMAIN other THEN other[k] ELSE d[k]]

\* setup_stream_logger with the two destinations of INFO and ERROR swapped
stream_mapping_swapped(stdout, stderr, no_warnings) ==
    LET stdout_output == IF stdout = None THEN NULL_OUTPUT
                         ELSE StreamOutput(stdout, allow_color, pref_encoding)
        stderr_output == IF stderr = None THEN NULL_OUTPUT
                         ELSE StreamOutput(stderr, allow_color, pref_encoding)
    IN (DEBUG :> (IF verbosity = VERBOSE THEN stderr_output ELSE NULL_OUTPUT))
       @@ (INFO :> stderr_output)
       @@ (WARNING :> (IF no_warnings THEN NULL_OUTPUT ELSE stderr_output))
       @@ (ERROR :> stdout_output)

stream_mapping(stdout, stderr, no_warnings) ==
    LET stdout_output == IF stdout = None THEN NULL_OUTPUT
                         ELSE StreamOutput(stdout, allow_color, pref_encoding)
        stderr_output == IF stderr = None THEN NULL_OUTPUT
                         ELSE StreamOutput(stderr, allow_color, pref_encoding)
    IN (DEBUG :> (IF verbosity = VERBOSE THEN stderr_output ELSE NULL_OUTPUT))
       @@ (INFO :> stdout_output)
       @@ (WARNING :> (IF no_warnings THEN NULL_OUTPUT ELSE stderr_output))
       @@ (ERROR :> stderr_output)

\* setup_class_logger with INFO routed to an `info` method of its own
class_mapping_with_info(logger) ==
    (DEBUG :> ClassOutput(Method(logger, "debug")))
    @@ (INFO :> ClassOutput(Method(logger, "info")))
    @@ (WARNING :> ClassOutput(Method(logger, "warning")))
    @@ (ERROR :> ClassOutput(Method(logger, "error")))

class_mapping(logger) ==
    LET debug_logger == ClassOutput(Method(logger, "debug"))
        error_logger == ClassOutput(Method(logger, "error"))
        warning_logger == ClassOutput(Method(logger, "warning"))
    IN (DEBUG :> debug_logger) @@ (INFO :> debug_logger)
       @@ (WARNING :> warning_logger) @@ (ERROR :> error_logger)

logging_mapping ==
    (DEBUG :> LoggingOutput(DEBUG)) @@ (INFO :> LoggingOutput(INFO))
    @@ (WARNING :> LoggingOutput(WARNING)) @@ (ERROR :> LoggingOutput(ERROR))

setup_stream_logger(stdout, stderr, no_warnings) ==
    /\ pc = "ready"
    /\ mapping' = update(mapping, stream_mapping(stdout, stderr, no_warnings))
    /\ pc' = "returned"
    /\ call' = [method |-> "setup_stream_logger", stdout |-> stdout,
                stderr |-> stderr, no_warnings |-> no_warnings]
    /\ last' = NoLog
    /\ UNCHANGED <<config, message_cache, bidi>>

setup_class_logger(logger) ==
    /\ pc = "ready"
    /\ mapping' = update(mapping, class_mapping(logger))
    /\ pc' = "returned"
    /\ call' = [method |-> "setup_class_logger", logger |-> logger]
    /\ last' = NoLog
    /\ UNCHANGED <<config, message_cache, bidi>>

setup_logging_logger ==
    /\ pc = "ready"
    /\ mapping' = update(mapping, logging_mapping)
    /\ pc' = "returned"
    /\ call' = [method |-> "setup_logging_logger"]
    /\ last' = NoLog
    /\ UNCHANGED <<config, message_cache, bidi>>

\* the prefix joined to the message with no separator
prefixed_without_space(prefix, message) ==
    LET parts == variadic(prefix)
    IN join(<<>>, [i \in 1..Len(parts) |-> str(parts[i])] \o <<message>>)

\* ' '.join((*map(str, variadic(prefix)), message))
prefixed(prefix, message) ==
    LET parts == variadic(prefix)
    IN join(<<" ">>, [i \in 1..Len(parts) |-> str(parts[i])] \o <<message>>)

\* what Logger.log appends after the newline on the ERROR level when verbose
trace_text(trace, exc_info) ==
    IF trace # None THEN str(trace)
    ELSE IF exc_info # "none"
         THEN (IF exc_info = "nested" THEN format_exception ELSE <<>>) \o format_exc
         ELSE format_stack

\* the message never added to the cache
remember_nothing(once, message) == message_cache

\* the trace appended on the ERROR level whatever the verbosity
appends_trace_always(level) == level = ERROR

\* the cache never consulted
cached_never(once, message) == FALSE

\* `if once: if message in self._message_cache: return`
cached(once, message) == once /\ message \in message_cache

\* the message added to the cache whether or not `once` is set
remember_always(once, message) == message_cache \cup {message}

\* `if once: ... self._message_cache.add(message)`
remember(once, message) ==
    IF once THEN message_cache \cup {message} ELSE message_cache

\* `if level is LogLevel.ERROR and self._verbosity is Verbosity.VERBOSE`
appends_trace(level) == level = ERROR /\ verbosity = VERBOSE

\* Logger.log as a function of the Logger's state: how the call ends, the
\* cache and the pipe it leaves, and the deliveries its backend makes
log_result(level, message, newline, once, suppress, trace, prefix, exc_info) ==
    LET logger == mapping_get(level)
        nothing == [status |-> "returned", error |-> "", step |-> "dropped",
                    cache |-> message_cache, reader |-> bidi_reader,
                    use_bidi |-> FALSE, sent |-> None, read |-> <<>>,
                    reshaped |-> None, text |-> None, out |-> <<>>]
    IN
    IF ~bool(logger) \/ suppress THEN nothing
    ELSE IF ~isinstance_str(message)
    THEN [nothing EXCEPT !.status = "raised", !.error = "AssertionError", !.step = "assert"]
    ELSE IF cached(once, message)
    THEN [nothing EXCEPT !.step = "cached"]
    ELSE
        LET cache == remember(once, message)
            use_bidi == allow_bidi(logger) /\ bidi_initalized
            rt == apply_bidi_workaround(str(message), bidi_reader)
            m1 == IF use_bidi THEN rt.result ELSE str(message)
            m2 == IF truthy(prefix) THEN prefixed(prefix, m1) ELSE m1
            m3 == IF appends_trace(level)
                  THEN m2 \o <<NL>> \o trace_text(trace, exc_info)
                  ELSE m2
            m4 == IF newline THEN m3 \o <<NL>> ELSE m3
        IN
        IF use_bidi /\ rt.blocked
        THEN [status |-> "blocked", error |-> "", step |-> "readlines",
              cache |-> cache, reader |-> rt.reader,
              use_bidi |-> TRUE, sent |-> Str(rt.sent), read |-> rt.lines,
              reshaped |-> None, text |-> None, out |-> <<>>]
        ELSE [status |-> "returned", error |-> "", step |-> "logged",
              cache |-> cache, reader |-> IF use_bidi THEN rt.reader ELSE bidi_reader,
              use_bidi |-> use_bidi,
              sent |-> IF use_bidi THEN Str(rt.sent) ELSE None,
              read |-> IF use_bidi THEN rt.lines ELSE <<>>,
              reshaped |-> Str(m1), text |-> Str(m4),
              out |-> backend_log(logger, m4)]

\* Logger.log(level, message, newline=, once=, suppress=, trace=, prefix=)
log(level, message, newline, once, suppress, trace, prefix, exc_info) ==
    \E r \in {log_result(level, message, newline, once, suppress, trace, prefix, exc_info)} :
       /\ message_cache' = r.cache
       /\ bidi_reader' = r.reader
       /\ pc' = r.status
       /\ last' = [level |-> level, message |-> message, newline |-> newline,
                   once |-> once, suppress |-> suppress, trace |-> trace,
                   prefix |-> prefix, exc_info |-> exc_info,
                   logger |-> mapping_get(level),
                   status |-> r.status, error |-> r.error, step |-> r.step,
                   use_bidi |-> r.use_bidi, sent |-> r.sent, read |-> r.read,
                   reshaped |-> r.reshaped,
                   text |-> r.text, out |-> r.out]
       /\ UNCHANGED <<config, mapping, bidi_initalized, bidi_process>>

\* a caller invoking Logger.log directly
call_log(level, message, newline, once, suppress, trace, prefix, exc_info) ==
    /\ pc = "ready"
    /\ call' = [method |-> "log"]
    /\ log(level, message, newline, once, suppress, trace, prefix, exc_info)

\* Logger.info with the quiet argument taking precedence over VERBOSE
info_quiet_first(message, newline, quiet, once, exc_info) ==
    LET suppress == IF quiet # None THEN quiet.value
                    ELSE IF verbosity = VERBOSE THEN FALSE
                    ELSE verbosity = QUIET
    IN /\ pc = "ready"
       /\ call' = [method |-> "info", quiet |-> quiet]
       /\ log(INFO, message, newline, once, suppress, None, None, exc_info)

\* the body of Logger.info(message, newline=True, quiet=None, once=False)
info_body(message, newline, quiet, once, exc_info) ==
    LET suppress == IF verbosity = VERBOSE THEN FALSE
                    ELSE IF quiet # None THEN quiet.value
                    ELSE verbosity = QUIET
    IN log(INFO, message, newline, once, suppress, None, None, exc_info)

\* Logger.info(message, newline=True, quiet=None, once=False)
info(message, newline, quiet, once, exc_info) ==
    /\ pc = "ready"
    /\ call' = [method |-> "info", quiet |-> quiet]
    /\ info_body(message, newline, quiet, once, exc_info)

\* Logger.screen(message, newline=True)
Logger_screen(message, newline) ==
    /\ pc = "ready"
    /\ call' = [method |-> "screen", message |-> message]
    /\ log(SCREEN, message, newline, FALSE, FALSE, None, None, "none")

\* Logger.debug(message, once=False)
debug(message, once) ==
    /\ pc = "ready"
    /\ call' = [method |-> "debug", message |-> message, once |-> once]
    /\ log(DEBUG, message, TRUE, once, FALSE, None, None, "none")

\* the body of Logger.error(message, once=False)
error_body(message, once, exc_info) ==
    log(ERROR, message, TRUE, once, FALSE, None, None, exc_info)

\* Logger.error(message, once=False)
error(message, once, exc_info) ==
    /\ pc = "ready"
    /\ call' = [method |-> "error", message |-> message, once |-> once]
    /\ error_body(message, once, exc_info)

\* Logger.format styling the text whether or not the backend uses colour
format_result_unconditional(level, text, text_formats) ==
    LET logger == mapping_get(level)
    IN IF ~bool(logger) THEN text
       ELSE Str(format_text(str(text), text_formats))

\* Logger.format(level, text, *text_formats)
format_result(level, text, text_formats) ==
    LET logger == mapping_get(level)
    IN IF ~bool(logger) THEN text
       ELSE Str(OutputBase_format(logger, str(text), text_formats))

format(level, text, text_formats) ==
    /\ pc = "ready"
    /\ pc' = "returned"
    /\ call' = [method |-> "format", level |-> level, text |-> text,
                text_formats |-> text_formats,
                result |-> format_result(level, text, text_formats)]
    /\ last' = NoLog
    /\ UNCHANGED <<config, mapping, message_cache, bidi>>

\* the fixed prefix tokens
WARNING_TOKEN == <<"W", "A", "R", "N", "I", "N", "G", ":">>
ERROR_TOKEN == <<"E", "R", "R", "O", "R", ":">>
DEPRECATED_TOKEN == <<"Deprecated Feature:">>

\* the body of Logger.warning(message, once=False)
warning_body(message, once) ==
    log(WARNING, message, TRUE, once, FALSE, None,
        format_result(WARNING, Str(WARNING_TOKEN), <<Style_WARNING>>), "none")

\* Logger.warning(message, once=False)
warning(message, once) ==
    /\ pc = "ready"
    /\ call' = [method |-> "warning", message |-> message, once |-> once]
    /\ warning_body(message, once)

\* Logger.deprecated_feature(message)
deprecated_feature(message) ==
    /\ pc = "ready"
    /\ call' = [method |-> "deprecated_feature", message |-> message]
    /\ log(WARNING, message, TRUE, TRUE, FALSE, None,
           format_result(WARNING, Str(DEPRECATED_TOKEN), <<Style_ERROR>>), "none")

\* the body of Logger.handle_error(message, trace, is_error, prefix)
handle_error_body(message, trace, is_error, prefix, exc_info) ==
    LET prefix_ == IF truthy(prefix)
                   THEN format_result(ERROR, Str(ERROR_TOKEN), <<Style_ERROR>>)
                   ELSE prefix
    IN log(ERROR, message, TRUE, FALSE, FALSE, trace, prefix_, exc_info)

\* Logger.handle_error(message, trace=None, is_error=True, prefix=True)
handle_error(message, trace, is_error, prefix, exc_info) ==
    /\ pc = "ready"
    /\ call' = [method |-> "handle_error", message |-> message, trace |-> trace,
                is_error |-> is_error, prefix |-> prefix]
    /\ handle_error_body(message, trace, is_error, prefix, exc_info)

\* utils.deprecation_warning(message, printer=self.handle_error,
\* is_error=False, prefix=True): a message already reported is dropped, a
\* new one is remembered and handed to the printer
utils_deprecation_warning(message, is_error, prefix, exc_info) ==
    IF message \in deprecation_cache
    THEN /\ pc' = "returned"
         /\ last' = NoLog
         /\ UNCHANGED <<config, mapping, message_cache, bidi, deprecation_cache>>
    ELSE /\ deprecation_cache' = deprecation_cache \cup {message}
         /\ handle_error_body(message, None, is_error, prefix, exc_info)

\* Logger.deprecation_warning(message, stacklevel=0)
deprecation_warning(message, exc_info) ==
    /\ pc = "ready"
    /\ call' = [method |-> "deprecation_warning", message |-> message]
    /\ utils_deprecation_warning(message, FALSE, Bool(TRUE), exc_info)

\* the names make_derived takes overrides for
ProxyNames == {"screen", "debug", "info", "warning", "error", "handle_error"}

\* a function of the caller given to make_derived: called with the original
\* method it returns the override, which either does its own work only
\* ("replacing") or calls the original too ("wrapping")
Function(name) == [type |-> "function", name |-> name]

\* getattr(obj, name) on the Logger: a bound method or the field's value
getattr(obj, name) ==
    CASE name = "mapping" -> mapping
      [] name = "_message_cache" -> message_cache
      [] name = "_verbosity" -> verbosity
      [] OTHER -> Method(obj, name)

\* _LoggerProxy(obj, **kwargs): an override per keyword, made by calling the
\* given function with the original method, and the reference to obj
LoggerProxy(obj, kwargs) ==
    [type |-> "_LoggerProxy",
     obj |-> obj,
     overrides |-> [name \in DOMAIN kwargs |->
                       [type |-> "override", wrapper |-> kwargs[name].name,
                        original |-> getattr(obj, name)]]]

\* attribute lookup on the proxy with the overrides never found on it
proxy_getattr_delegating(proxy, name) == getattr(proxy.obj, name)

\* attribute lookup on the proxy: the instance attribute set for an
\* override, else _LoggerProxy.__getattr__
proxy_getattr(proxy, name) ==
    IF name \in DOMAIN proxy.overrides THEN proxy.overrides[name]
    ELSE getattr(proxy.obj, name)

\* Logger.make_derived(screen=, debug=, info=, warning=, error=, handle_error=):
\* the keywords with a true value go to the proxy
make_derived(kwargs) ==
    /\ pc = "ready"
    /\ derived' = LoggerProxy("logger",
                     [name \in {n \in DOMAIN kwargs : truthy(kwargs[n])} |-> kwargs[name]])
    /\ pc' = "returned"
    /\ call' = [method |-> "make_derived", kwargs |-> kwargs]
    /\ last' = NoLog
    /\ UNCHANGED <<config, mapping, message_cache, bidi, deprecation_cache>>

\* a method found through the proxy bound to the proxy itself
receiver_proxy(proxy) == [kind |-> "proxy", obj |-> proxy]

\* `getattr(self.__obj, name)`: the method found through the proxy is bound
\* to the Logger the proxy refers to
receiver(proxy) == [kind |-> "logger", obj |-> proxy.obj]

\* self.<name> inside a method whose self is `self_`
self_attr(self_, name) ==
    IF self_.kind = "proxy" THEN proxy_getattr(self_.obj, name)
    ELSE getattr(self_.obj, name)

\* Logger.deprecation_warning(message) run with self being `self_`:
\* utils.deprecation_warning is given printer=self.handle_error
deprecation_warning_on(self_, message, exc_info) ==
    LET printer == self_attr(self_, "handle_error")
    IN IF printer.type = "override" /\ printer.wrapper = "replacing"
       THEN /\ deprecation_cache' = deprecation_cache \cup {message}
            /\ pc' = "returned"
            /\ last' = NoLog
            /\ UNCHANGED <<config, mapping, message_cache, bidi>>
       ELSE utils_deprecation_warning(message, FALSE, Bool(TRUE), exc_info)

\* the bound method of the Logger called with one message
underlying_call(name, message) ==
    CASE name = "info" -> info_body(message, TRUE, None, TRUE, "none")
      [] name = "handle_error" -> handle_error_body(message, None, TRUE, Bool(TRUE), "none")
      [] name = "warning" -> warning_body(message, FALSE)
      [] name = "error" -> error_body(message, FALSE, "none")
      [] name = "deprecation_warning" ->
            deprecation_warning_on(receiver(derived), message, "none")

\* proxy.<name>(message): the attribute found on the proxy is called
proxy_call(name, message) ==
    /\ pc = "ready"
    /\ derived # None
    /\ LET attr == proxy_getattr(derived, name)
       IN /\ call' = [method |-> name, via |-> "proxy", attr |-> attr, message |-> message]
          /\ IF attr.type = "override" /\ attr.wrapper = "replacing"
             THEN /\ pc' = "returned"
                  /\ last' = NoLog
                  /\ UNCHANGED <<config, mapping, message_cache, bidi>>
             ELSE underlying_call(name, message)

\* proxy.<name> of a field
proxy_read(name) ==
    /\ pc = "ready"
    /\ derived # None
    /\ call' = [method |-> name, via |-> "proxy", attr |-> proxy_getattr(derived, name),
                message |-> None]
    /\ pc' = "returned"
    /\ last' = NoLog
    /\ UNCHANGED <<config, mapping, message_cache, bidi>>

\* Logger.try_encoding(level, text, fallback_text, pref_encoding=None)
try_encoding_result(level, text, fallback_text, pref_encoding_) ==
    LET logger == mapping_get(level)
    IN IF ~("class" \in DOMAIN logger /\ logger.class = "StreamOutput") THEN text
       ELSE LET encoding == IF truthy(pref_encoding_) THEN pref_encoding_
                            ELSE IF truthy(logger.stream.encoding)
                                 THEN logger.stream.encoding
                                 ELSE Str(ASCII)
                round_trip == Str(encode_ignore_decode(str(text), str(encoding)))
            IN IF round_trip = text THEN text ELSE fallback_text

try_encoding(level, text, fallback_text, pref_encoding_) ==
    /\ pc = "ready"
    /\ pc' = "returned"
    /\ call' = [method |-> "try_encoding", level |-> level, text |-> text,
                fallback_text |-> fallback_text, pref_encoding |-> pref_encoding_,
                result |-> try_encoding_result(level, text, fallback_text, pref_encoding_)]
    /\ last' = NoLog
    /\ UNCHANGED <<config, mapping, message_cache, bidi>>

\* init_bidi_workaround spawning fribidi first and bidiv as the fallback
init_bidi_workaround_fribidi_first(bidiv_found, fribidi_found) ==
    /\ pc = "ready"
    /\ call' = [method |-> "init_bidi_workaround", bidiv_found |-> bidiv_found,
                fribidi_found |-> fribidi_found]
    /\ last' = NoLog
    /\ IF bidiv_found \/ fribidi_found
       THEN /\ bidi_process' = IF fribidi_found THEN "fribidi" ELSE "bidiv"
            /\ bidi_reader' = <<>>
            /\ bidi_initalized' = TRUE
            /\ pc' = "returned"
       ELSE /\ pc' = "raised"
            /\ UNCHANGED bidi
    /\ UNCHANGED <<config, mapping, message_cache>>

\* Logger.init_bidi_workaround(); which of the two tools can be spawned is
\* the environment's choice
init_bidi_workaround(bidiv_found, fribidi_found) ==
    /\ pc = "ready"
    /\ call' = [method |-> "init_bidi_workaround", bidiv_found |-> bidiv_found,
                fribidi_found |-> fribidi_found]
    /\ last' = NoLog
    /\ IF bidiv_found \/ fribidi_found
       THEN /\ bidi_process' = IF bidiv_found THEN "bidiv" ELSE "fribidi"
            /\ bidi_reader' = <<>>
            /\ bidi_initalized' = TRUE
            /\ pc' = "returned"
       ELSE /\ pc' = "raised"
            /\ UNCHANGED bidi
    /\ UNCHANGED <<config, mapping, message_cache>>

\* Logger.log run by a concurrent caller t, one step per access to the state
\* the callers share.  log_start is `logger = self.mapping.get(level)` with
\* the two tests after it: the backend is a local of the frame from here on
log_start(t, level, message, newline, once, suppress, trace, prefix, exc_info) ==
    LET logger == mapping_get(level)
        frame == [pc |-> "done", level |-> level, message |-> message,
                  newline |-> newline, once |-> once, suppress |-> suppress,
                  trace |-> trace, prefix |-> prefix, exc_info |-> exc_info,
                  logger |-> logger, status |-> "returned", step |-> "dropped",
                  text |-> None, out |-> <<>>]
    IN /\ threads[t].pc = "idle"
       /\ threads' = [threads EXCEPT ![t] =
             IF ~bool(logger) \/ suppress THEN frame
             ELSE IF ~isinstance_str(message)
             THEN [frame EXCEPT !.status = "raised", !.step = "assert"]
             ELSE [frame EXCEPT !.pc = IF once THEN "check" ELSE "emit"]]
       /\ UNCHANGED <<config, mapping, message_cache, bidi, pc, call, last,
                      derived, deprecation_cache>>

\* `if message in self._message_cache: return`
log_check(t) ==
    LET frame == threads[t]
    IN /\ frame.pc = "check"
       /\ threads' = [threads EXCEPT ![t] =
             IF cached(frame.once, frame.message)
             THEN [frame EXCEPT !.pc = "done", !.step = "cached"]
             ELSE [frame EXCEPT !.pc = "add"]]
       /\ UNCHANGED <<config, mapping, message_cache, bidi, pc, call, last,
                      derived, deprecation_cache>>

\* `self._message_cache.add(message)`
log_add(t) ==
    LET frame == threads[t]
    IN /\ frame.pc = "add"
       /\ message_cache' = remember(frame.once, frame.message)
       /\ threads' = [threads EXCEPT ![t] = [frame EXCEPT !.pc = "emit"]]
       /\ UNCHANGED <<config, mapping, bidi, pc, call, last, derived, deprecation_cache>>

\* the frame's backend looked up again when the text is handed over
frame_logger_reread(frame) == mapping_get(frame.level)

\* the local `logger` of the frame
frame_logger(frame) == frame.logger

\* the rest of Logger.log: the text is built from the frame's own values and
\* handed to the frame's backend by `logger.log(message)`
log_emit(t) ==
    LET frame == threads[t]
        logger == frame_logger(frame)
        use_bidi == allow_bidi(logger) /\ bidi_initalized
        rt == apply_bidi_workaround(str(frame.message), bidi_reader)
        m1 == IF use_bidi THEN rt.result ELSE str(frame.message)
        m2 == IF truthy(frame.prefix) THEN prefixed(frame.prefix, m1) ELSE m1
        m3 == IF appends_trace(frame.level)
              THEN m2 \o <<NL>> \o trace_text(frame.trace, frame.exc_info)
              ELSE m2
        m4 == IF frame.newline THEN m3 \o <<NL>> ELSE m3
    IN /\ frame.pc = "emit"
       /\ ~(use_bidi /\ rt.blocked)
       /\ bidi_reader' = IF use_bidi THEN rt.reader ELSE bidi_reader
       /\ threads' = [threads EXCEPT ![t] =
             [frame EXCEPT !.pc = "done", !.step = "logged", !.text = Str(m4),
                           !.out = IF bool(logger) THEN backend_log(logger, m4)
                                   ELSE <<>>]]
       /\ UNCHANGED <<config, mapping, message_cache, bidi_initalized, bidi_process,
                      pc, call, last, derived, deprecation_cache>>

\* the caller takes the result, or handles the exception, and goes on
Continue ==
    /\ pc \in {"returned", "raised"}
    /\ pc' = "ready"
    /\ call' = NoCall
    /\ last' = NoLog
    /\ UNCHANGED <<config, mapping, message_cache, bidi, history, outside>>

-----------------------------------------------------------------------------
(* The callers' arguments *)

Messages == {Str(<<"a", "b">>), Str(<<"c">>), None}
Traces == {None, Str(<<"t">>)}
Prefixes == {None, Str(<<"P", ":">>), List(<<Str(<<"X">>), Str(<<"Y">>)>>)}
StdoutArgs == {None, STDOUT}
StderrArgs == {None, STDERR}
ScreenArgs == {None, STDOUT}
QuietArgs == {None, Bool(TRUE), Bool(FALSE)}
FormatTexts == {Str(<<"W", ":">>)}
FormatArgs == {<<>>, <<Style_WARNING>>}
EncodingTexts == {Str(<<"c", "a", "f", "\\u00e9">>), Str(<<"c", "a", "f", "e">>)}
FallbackText == Str(<<"?">>)
EncodingArgs == {None, Str(ASCII), Str(UTF8)}

\* sys.exc_info() is read only where the trace is built from it
ExcInfoAt(level, trace) ==
    IF level = ERROR /\ trace = None /\ verbosity = VERBOSE THEN ExcInfo ELSE {"none"}

\* Logger(screen, verbosity), encoding and allow_color at their defaults
Init ==
    /\ \E screen \in ScreenArgs, v \in Verbosity : Logger_init(screen, v, None, FALSE)
    /\ Outside_init

Next ==
    \/ /\ pc = "ready"
       /\ \E stdout \in StdoutArgs, stderr \in StderrArgs, no_warnings \in BOOLEAN :
             setup_stream_logger(stdout, stderr, no_warnings)
       /\ UNCHANGED <<history, outside>>
    \/ /\ pc = "ready"
       /\ \E logger \in ClassLoggers : setup_class_logger(logger)
       /\ UNCHANGED <<history, outside>>
    \/ /\ pc = "ready"
       /\ setup_logging_logger
       /\ UNCHANGED <<history, outside>>
    \/ /\ pc = "ready"
       /\ \E level \in LogLevel, message \in Messages, newline \in BOOLEAN,
             once \in BOOLEAN, suppress \in BOOLEAN, trace \in Traces,
             prefix \in Prefixes :
             \E exc_info \in ExcInfoAt(level, trace) :
                call_log(level, message, newline, once, suppress, trace, prefix, exc_info)
       /\ UNCHANGED <<history, outside>>
    \/ /\ pc = "ready"
       /\ \E message \in Messages, newline \in BOOLEAN, quiet \in QuietArgs,
             once \in BOOLEAN :
             info(message, newline, quiet, once, "none")
       /\ UNCHANGED <<history, outside>>
    \/ /\ pc = "ready"
       /\ \E level \in LogLevel, text \in FormatTexts, text_formats \in FormatArgs :
             format(level, text, text_formats)
       /\ UNCHANGED <<history, outside>>
    \/ /\ pc = "ready"
       /\ \E level \in LogLevel, text \in EncodingTexts, encoding \in EncodingArgs :
             try_encoding(level, text, FallbackText, encoding)
       /\ UNCHANGED <<history, outside>>
    \/ /\ pc = "ready"
       /\ \E bidiv_found \in BOOLEAN, fribidi_found \in BOOLEAN :
             init_bidi_workaround(bidiv_found, fribidi_found)
       /\ UNCHANGED <<history, outside>>
    \/ Continue

Spec == Init /\ [][Next]_vars

-----------------------------------------------------------------------------
(* Sequences of calls: the same operations with every invocation recorded *)

MaxHistory == 4

SeqDestinations == {<<STDOUT, STDERR>>, <<LOGFILE, LOGFILE>>}
SeqLevels == {SCREEN, ERROR}
SeqMessages == {Str(<<"a", "b">>), Str(<<"c">>)}

\* the observer appends the invocation being made
Observe == history' = Append(history, [call |-> call', last |-> last'])

NextSeq ==
    \/ /\ pc = "ready" /\ Len(history) < MaxHistory
       /\ \E d \in SeqDestinations : setup_stream_logger(d[1], d[2], FALSE)
       /\ Observe /\ UNCHANGED outside
    \/ /\ pc = "ready" /\ Len(history) < MaxHistory
       /\ \E logger \in ClassLoggers : setup_class_logger(logger)
       /\ Observe /\ UNCHANGED outside
    \/ /\ pc = "ready" /\ Len(history) < MaxHistory
       /\ setup_logging_logger
       /\ Observe /\ UNCHANGED outside
    \/ /\ pc = "ready" /\ Len(history) < MaxHistory
       /\ \E level \in SeqLevels, message \in SeqMessages, once \in BOOLEAN :
             call_log(level, message, TRUE, once, FALSE, None, None, "none")
       /\ Observe /\ UNCHANGED outside
    \/ Continue

SpecSeq == Init /\ [][NextSeq]_vars

-----------------------------------------------------------------------------
(* The bidi workaround in use: messages of several lines and empty ones *)

MaxUnread == 2

BidiMessages ==
    {Str(<<>>), Str(<<"a", "b">>), Str(<<"a", NL, "b">>), Str(<<"a", "b", NL, "c">>),
     Str(<<"a", NL, "b", NL, "c">>)}
BidiLevels == {INFO, ERROR}
BidiPrefixes == {None, Str(<<"P", ":">>)}

NextBidi ==
    \/ /\ pc = "ready"
       /\ setup_stream_logger(STDOUT, STDERR, FALSE)
       /\ UNCHANGED <<history, outside>>
    \/ /\ pc = "ready"
       /\ \E logger \in ClassLoggers : setup_class_logger(logger)
       /\ UNCHANGED <<history, outside>>
    \/ /\ pc = "ready"
       /\ \E bidiv_found \in BOOLEAN, fribidi_found \in BOOLEAN :
             init_bidi_workaround(bidiv_found, fribidi_found)
       /\ UNCHANGED <<history, outside>>
    \/ /\ pc = "ready" /\ Len(bidi_reader) < MaxUnread
       /\ \E level \in BidiLevels, message \in BidiMessages, prefix \in BidiPrefixes :
             call_log(level, message, TRUE, FALSE, FALSE, None, prefix, "none")
       /\ UNCHANGED <<history, outside>>
    \/ Continue

SpecBidi == Init /\ [][NextBidi]_vars

-----------------------------------------------------------------------------
(* Calls on several levels, some of them sharing a backend, recorded *)

OrderLevels == {INFO, WARNING, ERROR}

NextOrder ==
    \/ /\ pc = "ready" /\ Len(history) < MaxHistory
       /\ \E d \in SeqDestinations : setup_stream_logger(d[1], d[2], FALSE)
       /\ Observe /\ UNCHANGED outside
    \/ /\ pc = "ready" /\ Len(history) < MaxHistory
       /\ \E logger \in ClassLoggers : setup_class_logger(logger)
       /\ Observe /\ UNCHANGED outside
    \/ /\ pc = "ready" /\ Len(history) < MaxHistory
       /\ \E level \in OrderLevels, message \in SeqMessages, once \in BOOLEAN :
             call_log(level, message, TRUE, once, FALSE, None, None, "none")
       /\ Observe /\ UNCHANGED outside
    \/ Continue

SpecOrder == Init /\ [][NextOrder]_vars

-----------------------------------------------------------------------------
(* The convenience methods, on Loggers with and without colour *)

ConvMessages == {Str(<<"a", "b">>), Str(<<>>), None}
PrefixArgs == {Bool(TRUE), Bool(FALSE)}

\* Logger(screen, verbosity, allow_color=allow_color)
InitConv ==
    /\ \E screen \in ScreenArgs, v \in Verbosity, color \in BOOLEAN :
          Logger_init(screen, v, None, color)
    /\ Outside_init

NextConv ==
    \/ /\ pc = "ready"
       /\ \E stdout \in StdoutArgs, stderr \in StderrArgs, no_warnings \in BOOLEAN :
             setup_stream_logger(stdout, stderr, no_warnings)
       /\ UNCHANGED <<history, outside>>
    \/ /\ pc = "ready"
       /\ \E logger \in ClassLoggers : setup_class_logger(logger)
       /\ UNCHANGED <<history, outside>>
    \/ /\ pc = "ready"
       /\ setup_logging_logger
       /\ UNCHANGED <<history, outside>>
    \/ /\ pc = "ready"
       /\ \E bidiv_found \in BOOLEAN, fribidi_found \in BOOLEAN :
             init_bidi_workaround(bidiv_found, fribidi_found)
       /\ UNCHANGED <<history, outside>>
    \/ /\ pc = "ready"
       /\ \E message \in ConvMessages, once \in BOOLEAN : warning(message, once)
       /\ UNCHANGED <<history, outside>>
    \/ /\ pc = "ready"
       /\ \E message \in ConvMessages : deprecated_feature(message)
       /\ UNCHANGED <<history, outside>>
    \/ /\ pc = "ready"
       /\ \E message \in ConvMessages, trace \in Traces, is_error \in BOOLEAN,
             prefix \in PrefixArgs :
             \E exc_info \in ExcInfoAt(ERROR, trace) :
                handle_error(message, trace, is_error, prefix, exc_info)
       /\ UNCHANGED <<history, outside>>
    \/ /\ pc = "ready"
       /\ \E message \in ConvMessages :
             \E exc_info \in ExcInfoAt(ERROR, None) :
                deprecation_warning(message, exc_info)
       /\ UNCHANGED <<history, derived, threads>>
    \/ Continue

SpecConv == InitConv /\ [][NextConv]_vars

-----------------------------------------------------------------------------
(* Deprecation notices between setups, recorded *)

NextDep ==
    \/ /\ pc = "ready" /\ Len(history) < MaxHistory
       /\ \E d \in SeqDestinations : setup_stream_logger(d[1], d[2], FALSE)
       /\ Observe /\ UNCHANGED outside
    \/ /\ pc = "ready" /\ Len(history) < MaxHistory
       /\ \E logger \in ClassLoggers : setup_class_logger(logger)
       /\ Observe /\ UNCHANGED outside
    \/ /\ pc = "ready" /\ Len(history) < MaxHistory
       /\ \E message \in SeqMessages : deprecated_feature(message)
       /\ Observe /\ UNCHANGED outside
    \/ /\ pc = "ready" /\ Len(history) < MaxHistory
       /\ \E message \in SeqMessages : deprecation_warning(message, "none")
       /\ Observe /\ UNCHANGED <<derived, threads>>
    \/ Continue

SpecDep == Init /\ [][NextDep]_vars

-----------------------------------------------------------------------------
(* A derived logger in use while the Logger changes, recorded *)

NoOverrides == [name \in ProxyNames |-> None]
KwargsArgs ==
    {[NoOverrides EXCEPT !["info"] = Function("replacing")],
     [NoOverrides EXCEPT !["handle_error"] = Function("wrapping")]}
ProxyMessages == {Str(<<"c">>)}
ProxyMethods == {"info", "handle_error"}
ProxyFields == {"mapping", "_message_cache"}

NextProxy ==
    \/ /\ pc = "ready" /\ Len(history) < MaxHistory
       /\ \E kwargs \in KwargsArgs : make_derived(kwargs)
       /\ Observe /\ UNCHANGED <<deprecation_cache, threads>>
    \/ /\ pc = "ready" /\ Len(history) < MaxHistory
       /\ \E logger \in ClassLoggers : setup_class_logger(logger)
       /\ Observe /\ UNCHANGED outside
    \/ /\ pc = "ready" /\ Len(history) < MaxHistory
       /\ \E message \in ProxyMessages :
             call_log(INFO, message, TRUE, TRUE, FALSE, None, None, "none")
       /\ Observe /\ UNCHANGED outside
    \/ /\ pc = "ready" /\ Len(history) < MaxHistory
       /\ \E name \in ProxyMethods, message \in ProxyMessages : proxy_call(name, message)
       /\ Observe /\ UNCHANGED outside
    \/ /\ pc = "ready" /\ Len(history) < MaxHistory
       /\ \E name \in ProxyFields : proxy_read(name)
       /\ Observe /\ UNCHANGED outside
    \/ Continue

SpecProxy == Init /\ [][NextProxy]_vars

-----------------------------------------------------------------------------
(* The methods of the Logger reached through derived loggers *)

DerivedKwargs ==
    {[NoOverrides EXCEPT !["handle_error"] = Function("replacing")],
     [NoOverrides EXCEPT !["handle_error"] = Function("wrapping")],
     [NoOverrides EXCEPT !["error"] = Function("replacing"),
                         !["warning"] = Function("replacing")]}
DerivedMethods == {"info", "warning", "error", "handle_error"}

NextDerived ==
    \/ /\ pc = "ready"
       /\ \E kwargs \in DerivedKwargs : make_derived(kwargs)
       /\ UNCHANGED <<history, deprecation_cache, threads>>
    \/ /\ pc = "ready"
       /\ \E d \in SeqDestinations : setup_stream_logger(d[1], d[2], FALSE)
       /\ UNCHANGED <<history, outside>>
    \/ /\ pc = "ready"
       /\ \E logger \in ClassLoggers : setup_class_logger(logger)
       /\ UNCHANGED <<history, outside>>
    \/ /\ pc = "ready"
       /\ \E name \in DerivedMethods, message \in SeqMessages : proxy_call(name, message)
       /\ UNCHANGED <<history, outside>>
    \/ /\ pc = "ready"
       /\ \E message \in SeqMessages : proxy_call("deprecation_warning", message)
       /\ UNCHANGED <<history, derived, threads>>
    \/ Continue

SpecDerived == Init /\ [][NextDerived]_vars

-----------------------------------------------------------------------------
(* The encoding check: Loggers constructed with and without an encoding *)

LoggerEncodings == {None, Str(ASCII), Str(UTF8)}
EncStdoutArgs == {None, STDOUT, LOGFILE}

\* Logger(screen, verbosity, encoding=encoding)
InitEnc ==
    /\ \E screen \in ScreenArgs, v \in Verbosity, encoding \in LoggerEncodings :
          Logger_init(screen, v, encoding, FALSE)
    /\ Outside_init

NextEnc ==
    \/ /\ pc = "ready"
       /\ \E stdout \in EncStdoutArgs, stderr \in StderrArgs :
             setup_stream_logger(stdout, stderr, FALSE)
       /\ UNCHANGED <<history, outside>>
    \/ /\ pc = "ready"
       /\ \E logger \in ClassLoggers : setup_class_logger(logger)
       /\ UNCHANGED <<history, outside>>
    \/ /\ pc = "ready"
       /\ setup_logging_logger
       /\ UNCHANGED <<history, outside>>
    \/ /\ pc = "ready"
       /\ \E level \in LogLevel, text \in EncodingTexts, encoding \in EncodingArgs :
             try_encoding(level, text, FallbackText, encoding)
       /\ UNCHANGED <<history, outside>>
    \/ Continue

SpecEnc == InitEnc /\ [][NextEnc]_vars

-----------------------------------------------------------------------------
(* Concurrent callers of Logger.log while the main caller sets the Logger up *)

MaxSetups == 2

RaceLevels == {SCREEN, INFO}
RaceMessages == {Str(<<"c">>)}

\* the observer appends the step caller t takes (0 is the main caller) and
\* the mapping the step leaves
ObserveStep(t, step) ==
    history' = Append(history, [thread |-> t, step |-> step, mapping |-> mapping'])

Setups == {i \in 1..Len(history) : history[i].step = "setup"}

NextRace ==
    \/ /\ pc = "ready" /\ Cardinality(Setups) < MaxSetups
       /\ \E d \in SeqDestinations : setup_stream_logger(d[1], d[2], FALSE)
       /\ ObserveStep(0, "setup") /\ UNCHANGED outside
    \/ /\ pc = "ready" /\ Cardinality(Setups) < MaxSetups
       /\ \E logger \in ClassLoggers : setup_class_logger(logger)
       /\ ObserveStep(0, "setup") /\ UNCHANGED outside
    \/ \E t \in Callers :
          /\ threads[t].pc = "idle"
          /\ \E level \in RaceLevels, message \in RaceMessages, once \in BOOLEAN :
                log_start(t, level, message, TRUE, once, FALSE, None, None, "none")
          /\ ObserveStep(t, "start")
    \/ \E t \in Callers : log_check(t) /\ ObserveStep(t, "check")
    \/ \E t \in Callers : log_add(t) /\ ObserveStep(t, "add")
    \/ \E t \in Callers : log_emit(t) /\ ObserveStep(t, "emit")
    \/ Continue

SpecRace == Init /\ [][NextRace]_vars

-----------------------------------------------------------------------------
(* Every public operation of the Logger and of a derived logger *)

AllLevels == {SCREEN, INFO, ERROR}
AllMessages == {Str(<<"a", "b">>), Str(<<"c">>)}
AllPrefixes == {None, Str(<<"P", ":">>)}
AllKwargs == {[NoOverrides EXCEPT !["info"] = Function("replacing"),
                                  !["handle_error"] = Function("wrapping")]}

NextAll ==
    \/ /\ pc = "ready"
       /\ \E d \in SeqDestinations : setup_stream_logger(d[1], d[2], FALSE)
       /\ UNCHANGED <<history, outside>>
    \/ /\ pc = "ready"
       /\ \E logger \in ClassLoggers : setup_class_logger(logger)
       /\ UNCHANGED <<history, outside>>
    \/ /\ pc = "ready"
       /\ setup_logging_logger
       /\ UNCHANGED <<history, outside>>
    \/ /\ pc = "ready"
       /\ \E bidiv_found \in BOOLEAN, fribidi_found \in BOOLEAN :
             init_bidi_workaround(bidiv_found, fribidi_found)
       /\ UNCHANGED <<history, outside>>
    \/ /\ pc = "ready"
       /\ \E kwargs \in AllKwargs : make_derived(kwargs)
       /\ UNCHANGED <<history, threads>>
    \/ /\ pc = "ready"
       /\ \E level \in AllLevels, message \in AllMessages \cup {None},
             once \in BOOLEAN, suppress \in BOOLEAN, prefix \in AllPrefixes :
             \E exc_info \in ExcInfoAt(level, None) :
                call_log(level, message, TRUE, once, suppress, None, prefix, exc_info)
       /\ UNCHANGED <<history, outside>>
    \/ /\ pc = "ready"
       /\ \E message \in AllMessages, newline \in BOOLEAN : Logger_screen(message, newline)
       /\ UNCHANGED <<history, outside>>
    \/ /\ pc = "ready"
       /\ \E message \in AllMessages, once \in BOOLEAN : debug(message, once)
       /\ UNCHANGED <<history, outside>>
    \/ /\ pc = "ready"
       /\ \E message \in AllMessages, quiet \in QuietArgs, once \in BOOLEAN :
             info(message, TRUE, quiet, once, "none")
       /\ UNCHANGED <<history, outside>>
    \/ /\ pc = "ready"
       /\ \E message \in AllMessages, once \in BOOLEAN : warning(message, once)
       /\ UNCHANGED <<history, outside>>
    \/ /\ pc = "ready"
       /\ \E message \in AllMessages, once \in BOOLEAN :
             \E exc_info \in ExcInfoAt(ERROR, None) : error(message, once, exc_info)
       /\ UNCHANGED <<history, outside>>
    \/ /\ pc = "ready"
       /\ \E message \in AllMessages : deprecated_feature(message)
       /\ UNCHANGED <<history, outside>>
    \/ /\ pc = "ready"
       /\ \E message \in AllMessages :
             \E exc_info \in ExcInfoAt(ERROR, None) :
                handle_error(message, None, TRUE, Bool(TRUE), exc_info)
       /\ UNCHANGED <<history, outside>>
    \/ /\ pc = "ready"
       /\ \E message \in ProxyMessages : deprecation_warning(message, "none")
       /\ UNCHANGED <<history, derived, threads>>
    \/ /\ pc = "ready"
       /\ \E name \in ProxyMethods, message \in ProxyMessages : proxy_call(name, message)
       /\ UNCHANGED <<history, outside>>
    \/ Continue

SpecAll == Init /\ [][NextAll]_vars

-----------------------------------------------------------------------------
(* Calls with once=true through every method that takes it, recorded *)

MaxCalls == 3

OnceQuiet == {None, Bool(TRUE)}

NextOnce ==
    \/ /\ pc = "ready" /\ Len(history) < MaxCalls
       /\ \E d \in SeqDestinations : setup_stream_logger(d[1], d[2], FALSE)
       /\ Observe /\ UNCHANGED outside
    \/ /\ pc = "ready" /\ Len(history) < MaxCalls
       /\ \E logger \in ClassLoggers : setup_class_logger(logger)
       /\ Observe /\ UNCHANGED outside
    \/ /\ pc = "ready" /\ Len(history) < MaxCalls
       /\ \E message \in SeqMessages, suppress \in BOOLEAN :
             call_log(SCREEN, message, TRUE, TRUE, suppress, None, None, "none")
       /\ Observe /\ UNCHANGED outside
    \/ /\ pc = "ready" /\ Len(history) < MaxCalls
       /\ \E message \in SeqMessages : debug(message, TRUE)
       /\ Observe /\ UNCHANGED outside
    \/ /\ pc = "ready" /\ Len(history) < MaxCalls
       /\ \E message \in SeqMessages, quiet \in OnceQuiet :
             info(message, TRUE, quiet, TRUE, "none")
       /\ Observe /\ UNCHANGED outside
    \/ /\ pc = "ready" /\ Len(history) < MaxCalls
       /\ \E message \in SeqMessages : warning(message, TRUE)
       /\ Observe /\ UNCHANGED outside
    \/ /\ pc = "ready" /\ Len(history) < MaxCalls
       /\ \E message \in SeqMessages : error(message, TRUE, "none")
       /\ Observe /\ UNCHANGED outside
    \/ /\ pc = "ready" /\ Len(history) < MaxCalls
       /\ \E message \in SeqMessages : deprecated_feature(message)
       /\ Observe /\ UNCHANGED outside
    \/ Continue

SpecOnce == Init /\ [][NextOnce]_vars

-----------------------------------------------------------------------------
(* Properties of the router, checked under Spec *)

SetupLevels == {DEBUG, INFO, WARNING, ERROR}

LogCalled == pc # "ready" /\ call.method \in {"log", "info"}

NoBackend(level) == level \notin DOMAIN mapping \/ mapping[level] = NULL_OUTPUT

\* C1: a log call on a level whose backend is absent from the mapping or is
\* the Null backend returns without raising, delivers nothing and leaves the
\* mapping, the dedup cache and the bidi pipe as they were, whatever the
\* message and the options are.
C1_NoBackendNoOp ==
    [][(pc = "ready" /\ call'.method \in {"log", "info"} /\ NoBackend(last'.level))
        => (/\ pc' = "returned"
            /\ last'.out = <<>>
            /\ UNCHANGED <<mapping, message_cache, bidi>>)]_vars

\* a log with once set and a message that is no text, on the DEBUG level
\* that stream mode left on the Null backend, has returned
C1_Witness ==
    /\ pc = "returned" /\ call.method = "log"
    /\ last.level = DEBUG /\ DEBUG \in DOMAIN mapping /\ mapping[DEBUG] = NULL_OUTPUT
    /\ last.message = None /\ last.once /\ ~last.suppress
    /\ last.out = <<>>

\* the suppress flag the specification gives info(m, quiet=q)
InfoSuppressed(q) ==
    IF verbosity = VERBOSE THEN FALSE
    ELSE IF q # None THEN q = Bool(TRUE)
    ELSE verbosity = QUIET

\* C3: info passes suppress = FALSE when verbose, else the quiet argument
\* when it is given, else (verbosity = QUIET); a suppressed info delivers
\* nothing and an unsuppressed one with an active INFO backend delivers once.
C3_InfoGating ==
    (pc # "ready" /\ call.method = "info") =>
        /\ last.level = INFO
        /\ last.suppress = InfoSuppressed(call.quiet)
        /\ InfoSuppressed(call.quiet) => last.out = <<>>
        /\ (/\ ~InfoSuppressed(call.quiet) /\ ~NoBackend(INFO)
            /\ isinstance_str(last.message) /\ ~last.once /\ pc = "returned")
           => Len(last.out) = 1

\* quiet verbosity, quiet=False given: the message is delivered
C3_Witness ==
    /\ pc = "returned" /\ call.method = "info"
    /\ verbosity = QUIET /\ call.quiet = Bool(FALSE)
    /\ Len(last.out) = 1

\* the backend of a destination argument: Null for None, else a stream
\* backend writing to it
IsDestination(backend, arg) ==
    IF arg = None THEN backend = NULL_OUTPUT
    ELSE backend.class = "StreamOutput" /\ backend.stream = arg

\* C5: when setup_stream_logger(stdout, stderr, no_warnings) returns, DEBUG
\* is on the second destination if verbose and on Null otherwise, INFO on
\* the first destination, WARNING on Null if no_warnings and on the second
\* destination otherwise, ERROR on the second destination.
C5_StreamRouting ==
    (pc = "returned" /\ call.method = "setup_stream_logger") =>
        /\ SetupLevels \subseteq DOMAIN mapping
        /\ IF verbosity = VERBOSE THEN IsDestination(mapping[DEBUG], call.stderr)
           ELSE mapping[DEBUG] = NULL_OUTPUT
        /\ IsDestination(mapping[INFO], call.stdout)
        /\ IF call.no_warnings THEN mapping[WARNING] = NULL_OUTPUT
           ELSE IsDestination(mapping[WARNING], call.stderr)
        /\ IsDestination(mapping[ERROR], call.stderr)

C5_Witness ==
    /\ pc = "returned" /\ call.method = "setup_stream_logger"
    /\ call.stdout = STDOUT /\ call.stderr = STDERR /\ ~call.no_warnings
    /\ verbosity = NORMAL
    /\ mapping[DEBUG] = NULL_OUTPUT /\ mapping[INFO].stream = STDOUT
    /\ mapping[WARNING].stream = STDERR /\ mapping[ERROR].stream = STDERR

\* the method of the callback object the specification gives each level
CallbackOf(level) ==
    CASE level \in {DEBUG, INFO} -> "debug"
      [] level = WARNING -> "warning"
      [] level = ERROR -> "error"

\* C6: when setup_class_logger(obj) returns, DEBUG and INFO are both on
\* obj.debug, WARNING on obj.warning and ERROR on obj.error, whatever the
\* verbosity; and every delivery a callback backend makes for a level goes
\* to that method.
C6_CallbackRouting ==
    /\ (pc = "returned" /\ call.method = "setup_class_logger") =>
          \A level \in SetupLevels :
             /\ level \in DOMAIN mapping
             /\ mapping[level] = ClassOutput(Method(call.logger, CallbackOf(level)))
    /\ (LogCalled /\ bool(last.logger) /\ last.logger.class = "ClassOutput")
          => \A i \in 1..Len(last.out) :
                /\ last.level \in SetupLevels
                /\ last.out[i].to.type = "method"
                /\ last.out[i].to.name = CallbackOf(last.level)

\* an INFO message delivered to the debug method under quiet verbosity
C6_Witness ==
    /\ pc = "returned" /\ call.method = "log" /\ verbosity = QUIET
    /\ last.level = INFO /\ Len(last.out) = 1
    /\ last.out[1].to = Method("ydl_logger", "debug")

\* C7: no step changes the backend the constructor mapped to SCREEN.
C7_ScreenFixed ==
    [][(SCREEN \in DOMAIN mapping' /\ mapping'[SCREEN] = mapping[SCREEN])]_vars

\* system-log mode set up over a stream screen
C7_Witness ==
    /\ pc = "returned" /\ call.method = "setup_logging_logger"
    /\ DOMAIN mapping = SetupLevels \cup {SCREEN}
    /\ mapping[SCREEN].class = "StreamOutput" /\ mapping[SCREEN].stream = STDOUT

\* the message as it stands when the prefix is joined: reshaped when the
\* call went through the bidi workaround, else as given
Body == IF last.use_bidi THEN last.reshaped.chars ELSE last.message.chars

\* the prefix fragments in order, each followed by one space
RECURSIVE Fragments(_)
Fragments(items) ==
    IF items = <<>> THEN <<>>
    ELSE Head(items).chars \o <<" ">> \o Fragments(Tail(items))

PrefixPart(prefix) ==
    CASE prefix = None -> <<>>
      [] prefix.type = "str" -> prefix.chars \o <<" ">>
      [] prefix.type = "list" -> Fragments(prefix.items)

NewlinePart == IF last.newline THEN <<NL>> ELSE <<>>

Forwarded == LogCalled /\ pc = "returned" /\ last.text # None

\* C8: the text forwarded to the backend starts with the prefix fragments in
\* order and the message, joined by single spaces (the message alone when no
\* prefix is given), and off the verbose ERROR level it is exactly that
\* followed by the newline when requested.
C8_PrefixJoin ==
    Forwarded =>
        /\ last.use_bidi = (bidi_initalized /\ mapping[last.level].class = "StreamOutput")
        /\ startswith(last.text.chars, PrefixPart(last.prefix) \o Body)
        /\ ~(last.level = ERROR /\ verbosity = VERBOSE)
              => last.text.chars = PrefixPart(last.prefix) \o Body \o NewlinePart

C8_Witness ==
    /\ Forwarded /\ last.level = WARNING
    /\ last.message = Str(<<"a", "b">>) /\ last.prefix = Str(<<"P", ":">>)
    /\ last.text = Str(<<"P", ":", " ", "a", "b", NL>>)
    /\ last.out = <<[to |-> STDERR, text |-> <<"P", ":", " ", "a", "b", NL>>]>>

endswith(s, p) == Len(s) >= Len(p) /\ SubSeq(s, Len(s) - Len(p) + 1, Len(s)) = p

\* C9: log(ERROR, m, trace=t) forwards a text ending in m, a newline, t and
\* the requested newline when verbose, and the prefixed m and the requested
\* newline with no trace otherwise.
C9_TraceAugmentation ==
    (Forwarded /\ last.level = ERROR /\ last.trace # None) =>
        IF verbosity = VERBOSE
        THEN /\ endswith(last.text.chars, Body \o <<NL>> \o last.trace.chars \o NewlinePart)
             /\ last.text.chars = PrefixPart(last.prefix) \o Body \o <<NL>>
                                    \o last.trace.chars \o NewlinePart
        ELSE last.text.chars = PrefixPart(last.prefix) \o Body \o NewlinePart

C9_Witness ==
    /\ Forwarded /\ last.level = ERROR /\ verbosity = VERBOSE
    /\ last.message = Str(<<"a", "b">>) /\ last.trace = Str(<<"t">>) /\ last.prefix = None
    /\ last.text = Str(<<"a", "b", NL, "t", NL>>)

\* the same call under normal verbosity forwards the message and the newline
C9_WitnessNormal ==
    /\ Forwarded /\ last.level = ERROR /\ verbosity = NORMAL
    /\ last.message = Str(<<"a", "b">>) /\ last.trace = Str(<<"t">>) /\ last.prefix = None
    /\ last.text = Str(<<"a", "b", NL>>)

-----------------------------------------------------------------------------
(* Properties of sequences of calls, checked under SpecSeq *)

IsLog(i) == history[i].call.method = "log"

IsSetup(i) ==
    history[i].call.method \in
        {"setup_stream_logger", "setup_class_logger", "setup_logging_logger"}

\* invocation i is a log of a text that gets past the backend and suppress test
Passing(i) ==
    /\ IsLog(i)
    /\ bool(history[i].last.logger)
    /\ ~history[i].last.suppress
    /\ isinstance_str(history[i].last.message)

\* an earlier passing log with once set carried the same message
SeenBefore(i) ==
    \E k \in 1..(i - 1) :
        /\ Passing(k) /\ history[k].last.once
        /\ history[k].last.message = history[i].last.message

\* C2: of the log calls with once set that reach an active backend, the
\* first one with a given message delivers exactly one text and every later
\* one with that message delivers none; so two such calls with the same
\* message deliver one line and two with different messages deliver two.
C2_LogOnce ==
    \A i \in 1..Len(history) :
        (Passing(i) /\ history[i].last.once) =>
            /\ history[i].last.status = "returned"
            /\ Len(history[i].last.out) = IF SeenBefore(i) THEN 0 ELSE 1

\* the same message twice on the screen, then another one
C2_Witness ==
    /\ Len(history) = 3
    /\ \A i \in 1..3 : Passing(i) /\ history[i].last.once /\ history[i].last.level = SCREEN
    /\ history[1].last.message = history[2].last.message
    /\ history[3].last.message # history[1].last.message
    /\ Len(history[1].last.out) = 1
    /\ Len(history[2].last.out) = 0
    /\ Len(history[3].last.out) = 1

\* the latest setup call before invocation i, 0 when there is none
LastSetupBefore(i) ==
    IF \E k \in 1..(i - 1) : IsSetup(k)
    THEN CHOOSE k \in 1..(i - 1) :
            IsSetup(k) /\ \A j \in (k + 1)..(i - 1) : ~IsSetup(j)
    ELSE 0

\* the backends a setup call installs
Installed(c) ==
    CASE c.method = "setup_stream_logger" -> stream_mapping(c.stdout, c.stderr, c.no_warnings)
      [] c.method = "setup_class_logger" -> class_mapping(c.logger)
      [] c.method = "setup_logging_logger" -> logging_mapping

\* the backend invocation i should find for its level
BackendAt(i) ==
    LET level == history[i].last.level
        k == LastSetupBefore(i)
    IN IF level = SCREEN THEN mapping[SCREEN]
       ELSE IF k = 0 \/ level \notin SetupLevels THEN None
       ELSE Installed(history[k].call)[level]

\* where a backend delivers
DestinationOf(backend) ==
    CASE backend.class = "StreamOutput" -> backend.stream
      [] backend.class = "ClassOutput" -> backend.logging_function
      [] backend.class = "LoggingOutput" -> LoggingLogger(backend.level)

\* C4: the backends of DEBUG, INFO, WARNING and ERROR are those of the most
\* recent setup call alone (none before the first one), and every log call
\* that is neither suppressed nor deduplicated is delivered exactly once, to
\* the backend installed by the latest setup call that precedes it.
C4_LastSetupWins ==
    /\ LET k == LastSetupBefore(Len(history) + 1)
       IN IF k = 0 THEN DOMAIN mapping = {SCREEN}
          ELSE \A level \in SetupLevels :
                  /\ level \in DOMAIN mapping
                  /\ mapping[level] = Installed(history[k].call)[level]
    /\ \A i \in 1..Len(history) :
          (/\ IsLog(i) /\ ~history[i].last.suppress
           /\ isinstance_str(history[i].last.message)
           /\ ~(history[i].last.once /\ SeenBefore(i)))
          => /\ history[i].last.logger = BackendAt(i)
             /\ IF bool(BackendAt(i))
                THEN /\ Len(history[i].last.out) = 1
                     /\ history[i].last.out[1].to = DestinationOf(BackendAt(i))
                ELSE history[i].last.out = <<>>

\* an error logged to stderr, stream mode set up again on the log file, and
\* the next error logged to the log file
C4_Witness ==
    /\ Len(history) = 4
    /\ history[1].call.method = "setup_stream_logger" /\ history[1].call.stderr = STDERR
    /\ IsLog(2) /\ history[2].last.level = ERROR
    /\ history[2].last.out = <<[to |-> STDERR, text |-> <<"c", NL>>]>>
    /\ history[3].call.method = "setup_stream_logger" /\ history[3].call.stderr = LOGFILE
    /\ IsLog(4) /\ history[4].last.level = ERROR
    /\ history[4].last.out = <<[to |-> LOGFILE, text |-> <<"c", NL>>]>>

-----------------------------------------------------------------------------
(* Properties of the bidi round trip, checked under SpecBidi *)

\* the lines of a text, each reshaped, in their order, joined as the reader
\* receives them, the newline that ends the last one dropped
RECURSIVE ReshapedLines(_, _)
ReshapedLines(text, cur) ==
    IF text = <<>> THEN Reshape(cur) \o <<CR>>
    ELSE IF Head(text) = NL
         THEN Reshape(cur) \o pty_newline \o ReshapedLines(Tail(text), <<>>)
         ELSE ReshapedLines(Tail(text), Append(cur, Head(text)))

\* C10: a log call that goes through the bidi workaround writes the message
\* and a newline to the subprocess, reads exactly as many lines as the
\* message has, returns them joined in order without the final newline, and
\* leaves no output line unread.
C10_BidiRoundTrip ==
    (LogCalled /\ pc = "returned" /\ last.use_bidi) =>
        /\ last.sent = Str(last.message.chars \o <<NL>>)
        /\ Len(last.read) = count(last.message.chars, NL) + 1
        /\ last.reshaped = Str(ReshapedLines(last.message.chars, <<>>))
        /\ bidi_reader = <<>>

-----------------------------------------------------------------------------
(* Properties of the encoding check, checked under SpecEnc *)

IsStream(backend) == "class" \in DOMAIN backend /\ backend.class = "StreamOutput"

\* the encoding a stream backend resolves to: the one it was constructed
\* with, else the one of its stream, else ascii
ResolvedEncoding(backend) ==
    IF truthy(backend.encoding) THEN backend.encoding
    ELSE IF truthy(backend.stream.encoding) THEN backend.stream.encoding
    ELSE Str(ASCII)

\* the encoding the check is to use: the preferred one when given
ChosenEncoding(backend, preferred) ==
    IF truthy(preferred) THEN preferred ELSE ResolvedEncoding(backend)

\* C11: on a level with a stream backend try_encoding returns the primary
\* text iff encoding it with the chosen encoding (the preferred encoding if
\* given, else the backend's resolved encoding), unencodable characters
\* dropped, and decoding it back gives the text again, and the fallback text
\* otherwise; on any other level it returns the primary text.
C11_TryEncoding ==
    (pc = "returned" /\ call.method = "try_encoding") =>
        LET backend == mapping_get(call.level)
        IN IF IsStream(backend)
           THEN LET chosen == ChosenEncoding(backend, call.pref_encoding)
                IN call.result =
                      IF encode_ignore_decode(call.text.chars, chosen.chars) = call.text.chars
                      THEN call.text ELSE call.fallback_text
           ELSE call.result = call.text

\* the same statement with the Logger constructed without an encoding, where
\* the backend's encoding is that of its stream, ascii when it has none
C11_TryEncodingDefault ==
    pref_encoding = None => C11_TryEncoding

-----------------------------------------------------------------------------
(* Properties of the order of deliveries, checked under SpecOrder *)

\* the texts among the deliveries `out` that went to `dest`, in order
RECURSIVE TextsTo(_, _)
TextsTo(out, dest) ==
    IF out = <<>> THEN <<>>
    ELSE (IF Head(out).to = dest THEN <<Head(out).text>> ELSE <<>>)
         \o TextsTo(Tail(out), dest)

\* what `dest` received during the first n invocations
RECURSIVE Received(_, _)
Received(dest, n) ==
    IF n = 0 THEN <<>>
    ELSE Received(dest, n - 1)
         \o (IF IsLog(n) THEN TextsTo(history[n].last.out, dest) ELSE <<>>)

\* invocation i is a log call that is neither suppressed nor deduplicated
\* and finds an active backend
Routed(i) ==
    /\ Passing(i)
    /\ ~(history[i].last.once /\ SeenBefore(i))

\* the text the backend of invocation i hands over: the message, on the
\* verbose ERROR level a newline and the stack, and the final newline,
\* without the trailing whitespace for a callback or the system log
ExpectedText(i) ==
    LET l == history[i].last
        body == l.message.chars
                \o (IF l.level = ERROR /\ verbosity = VERBOSE
                    THEN <<NL, "<stack>", NL>> ELSE <<>>)
    IN IF BackendAt(i).class = "StreamOutput" THEN body \o <<NL>>
       ELSE IF l.level = ERROR /\ verbosity = VERBOSE
            THEN l.message.chars \o <<NL, "<stack>">>
            ELSE l.message.chars

\* the texts of the first n invocations routed to `dest`, in call order
RECURSIVE Expected(_, _)
Expected(dest, n) ==
    IF n = 0 THEN <<>>
    ELSE Expected(dest, n - 1)
         \o (IF Routed(n) /\ DestinationOf(BackendAt(n)) = dest
             THEN <<ExpectedText(n)>> ELSE <<>>)

Destinations ==
    {STDOUT, STDERR, LOGFILE}
    \cup {Method(o, n) : o \in ClassLoggers, n \in {"debug", "warning", "error"}}
    \cup {LoggingLogger(level) : level \in SetupLevels}

\* C12: each destination has received exactly the texts of the log calls,
\* neither suppressed nor deduplicated, that were routed to its backend, one
\* per call and in call order, also when several levels share the backend.
C12_Ordering ==
    \A dest \in Destinations :
        Received(dest, Len(history)) = Expected(dest, Len(history))

\* stream mode, then a warning, an error and a warning again on the shared
\* stderr backend
C12_Witness ==
    /\ Len(history) = 4 /\ verbosity = NORMAL
    /\ history[1].call.method = "setup_stream_logger" /\ history[1].call.stderr = STDERR
    /\ IsLog(2) /\ history[2].last.level = WARNING
    /\ IsLog(3) /\ history[3].last.level = ERROR
    /\ IsLog(4) /\ history[4].last.level = WARNING
    /\ Received(STDERR, 4) = << <<"a", "b", NL>>, <<"c", NL>>, <<"a", "b", NL>> >>

-----------------------------------------------------------------------------
(* Properties of the convenience methods, checked under SpecConv *)

ConvCalled(method) == pc # "ready" /\ call.method = method

\* the call handed a text to the backend of its level
Emitted == pc = "returned" /\ "text" \in DOMAIN last /\ last.text # None

WarningToken == <<"W", "A", "R", "N", "I", "N", "G", ":">>
ErrorToken == <<"E", "R", "R", "O", "R", ":">>

\* a token as the backend of `level` shows it: between the style's code
\* and the reset code when the backend supports styling, plain otherwise
Token(level, chars, style) ==
    IF mapping[level].class = "StreamOutput" /\ mapping[level].use_color
    THEN <<style>> \o chars \o <<RESET>>
    ELSE chars

C13_WitnessUnprefixed ==
    /\ ConvCalled("handle_error") /\ Emitted /\ call.prefix = Bool(FALSE)
    /\ verbosity = NORMAL
    /\ last.out = <<[to |-> Method("ydl_logger", "error"), text |-> <<"a", "b">>]>>

C16_NotErrorChannel ==
    (ConvCalled("deprecation_warning") /\ "out" \in DOMAIN last) =>
        (last.level # ERROR \/ last.out = <<>>)

-----------------------------------------------------------------------------
(* Properties of the deprecation notices, checked under SpecDep *)

IsDeprecation(i) ==
    history[i].call.method \in {"deprecated_feature", "deprecation_warning"}

\* the deliveries of invocation i
OutOf(i) == IF "out" \in DOMAIN history[i].last THEN history[i].last.out ELSE <<>>

\* invocations i and j both delivered to one destination
SameDestination(i, j) ==
    \E dest \in Destinations :
        TextsTo(OutOf(i), dest) # <<>> /\ TextsTo(OutOf(j), dest) # <<>>

\* C15: over any sequence of deprecated_feature and deprecation_warning
\* calls and setups, no destination receives a deprecation notice for one
\* message text twice.
C15_DeprecationOnce ==
    \A i, j \in 1..Len(history) :
        (/\ i < j /\ IsDeprecation(i) /\ IsDeprecation(j)
         /\ history[i].call.message = history[j].call.message)
        => ~SameDestination(i, j)

\* the same statement for two calls of the same method: each method on its
\* own reports a message text once
C15_OncePerMethod ==
    \A i, j \in 1..Len(history) :
        (/\ i < j /\ IsDeprecation(i) /\ IsDeprecation(j)
         /\ history[i].call.method = history[j].call.method
         /\ history[i].call.message = history[j].call.message)
        => (OutOf(i) = <<>> \/ OutOf(j) = <<>>)

-----------------------------------------------------------------------------
(* Properties of the derived logger, checked under SpecProxy *)

\* a step that goes through the proxy
ProxyStep == pc = "ready" /\ "via" \in DOMAIN call'

\* what the same access on the Logger gives at that moment
DirectAccess ==
    CASE call'.method = "mapping" -> call'.attr = mapping
      [] call'.method = "_message_cache" -> call'.attr = message_cache
      [] call'.method = "info" ->
            LET passes == bool(mapping_get(INFO)) /\ ~InfoSuppressed(None)
                fresh == call'.message \notin message_cache
            IN /\ call'.attr = Method("logger", "info")
               /\ last'.level = INFO
               /\ last'.logger = mapping_get(INFO)
               /\ Len(last'.out) = IF passes /\ fresh THEN 1 ELSE 0
               /\ message_cache' = IF passes THEN message_cache \cup {call'.message}
                                   ELSE message_cache
      [] call'.method = "handle_error" ->
            /\ call'.attr = Method("logger", "handle_error")
            /\ last'.level = ERROR
            /\ last'.logger = mapping_get(ERROR)
            /\ Len(last'.out) = IF bool(mapping_get(ERROR)) THEN 1 ELSE 0

\* C17: through a proxy made by make_derived a method for which an override
\* was supplied runs the override, and every other method or field access
\* gives what the same access on the Logger gives at that moment; the proxy
\* holds the overrides and the reference only, so setups and once-messages
\* of the Logger made after the proxy are seen through it.
C17_ProxyDelegation ==
    [][ProxyStep =>
        /\ DOMAIN derived = {"type", "obj", "overrides"}
        /\ derived' = derived
        /\ IF call'.method \in DOMAIN derived.overrides
           THEN /\ call'.attr.type = "override"
                /\ call'.attr.original = Method(derived.obj, call'.method)
                /\ call'.attr.wrapper = "replacing"
                      => (last' = NoLog /\ UNCHANGED <<mapping, message_cache, bidi>>)
           ELSE DirectAccess]_vars

\* a proxy overriding handle_error, then callback mode set up and a
\* once-message logged on the Logger, then the same message through the
\* proxy's info: the callback backend is found and the message is dropped
C17_Witness ==
    /\ Len(history) = 4
    /\ history[1].call.method = "make_derived"
    /\ history[2].call.method = "setup_class_logger"
    /\ IsLog(3) /\ Len(history[3].last.out) = 1
    /\ "via" \in DOMAIN history[4].call /\ history[4].call.method = "info"
    /\ history[4].call.attr = Method("logger", "info")
    /\ history[4].last.logger = ClassOutput(Method("ydl_logger", "debug"))
    /\ history[4].last.step = "cached"
    /\ "handle_error" \in DOMAIN derived.overrides

\* the overridden info run through the proxy: the Logger's info is not called
C17_WitnessOverride ==
    /\ pc = "returned" /\ "via" \in DOMAIN call /\ call.method = "info"
    /\ call.attr.type = "override" /\ call.attr.wrapper = "replacing"
    /\ last = NoLog

-----------------------------------------------------------------------------
(* Properties of the callback backend, checked under Spec *)

\* the text Logger.log built, before the newline the newline option adds
BeforeNewline ==
    IF last.newline THEN SubSeq(last.text.chars, 1, Len(last.text.chars) - 1)
    ELSE last.text.chars

\* C18: a callback backend calls its callback once per forwarded text, with
\* one text that ends in no whitespace and is the same whether or not the
\* newline option is set.
C18_CallbackText ==
    (Forwarded /\ last.logger.class = "ClassOutput") =>
        /\ Len(last.out) = 1
        /\ last.out[1].to = last.logger.logging_function
        /\ LET t == last.out[1].text
           IN /\ t = <<>> \/ t[Len(t)] \notin {" ", NL, CR, TAB}
              /\ t = rstrip(BeforeNewline)
              /\ startswith(last.text.chars, t)

\* a verbose error with the stack appended and the newline option set: the
\* callback gets neither the stack's final newline nor the added one
C18_Witness ==
    /\ Forwarded /\ last.level = ERROR /\ verbosity = VERBOSE /\ last.newline
    /\ last.message = Str(<<"a", "b">>) /\ last.prefix = None /\ last.trace = None
    /\ last.text = Str(<<"a", "b", NL, "<stack>", NL, NL>>)
    /\ last.out = <<[to |-> Method("ydl_logger", "error"),
                     text |-> <<"a", "b", NL, "<stack>">>]>>

-----------------------------------------------------------------------------
(* Properties of the bidi state, checked under Spec *)

InitBidiStep == pc = "ready" /\ call'.method = "init_bidi_workaround"

\* C19: the bidi state starts inactive; a step activates it only as an
\* init_bidi_workaround that returns, with the first tool when it can be
\* spawned and the second tool only when the first cannot; when neither can,
\* the call raises and the state stays as it was; no step deactivates it;
\* and while it is inactive a log call forwards the message unreshaped.
C19_BidiOneWay ==
    /\ ~bidi_initalized
    /\ [][/\ bidi_initalized => bidi_initalized'
          /\ (~bidi_initalized /\ bidi_initalized')
                => (InitBidiStep /\ pc' = "returned"
                    /\ (call'.bidiv_found \/ call'.fribidi_found))
          /\ InitBidiStep =>
                IF call'.bidiv_found
                THEN bidi_initalized' /\ bidi_process' = "bidiv"
                ELSE IF call'.fribidi_found
                THEN bidi_initalized' /\ bidi_process' = "fribidi"
                ELSE pc' = "raised" /\ UNCHANGED bidi
          /\ (/\ pc = "ready" /\ call'.method \in {"log", "info"}
              /\ ~bidi_initalized /\ last'.text # None)
                => /\ ~last'.use_bidi
                   /\ startswith(last'.text.chars,
                                 PrefixPart(last'.prefix) \o last'.message.chars)
       ]_vars

\* the first tool missing, the second one spawned
C19_Witness ==
    /\ pc = "returned" /\ call.method = "init_bidi_workaround"
    /\ ~call.bidiv_found /\ call.fribidi_found
    /\ bidi_initalized /\ bidi_process = "fribidi"

\* both tools missing: the call has raised and the state is inactive
C19_WitnessFailed ==
    /\ pc = "raised" /\ call.method = "init_bidi_workaround"
    /\ ~call.bidiv_found /\ ~call.fribidi_found
    /\ ~bidi_initalized

\* C20: an activation that fails because neither tool can be spawned hands
\* one text about it to the ERROR backend and comes back to the caller
\* normally.
C20_ActivationFaultReported ==
    (/\ pc # "ready" /\ call.method = "init_bidi_workaround"
     /\ ~call.bidiv_found /\ ~call.fribidi_found)
    => /\ pc = "returned"
       /\ "out" \in DOMAIN last
       /\ last.level = ERROR
       /\ bool(mapping_get(ERROR)) => Len(last.out) = 1

-----------------------------------------------------------------------------
(* Properties of concurrent callers, checked under SpecRace *)

\* the position in the run of step `step` of caller t, 0 if it never took it
StepOf(t, step) ==
    LET at == {i \in 1..Len(history) :
                  history[i].thread = t /\ history[i].step = step}
    IN IF at = {} THEN 0 ELSE CHOOSE i \in at : TRUE

\* caller t has returned from a call with once=true that found a backend
OnceDone(t) ==
    /\ threads[t].pc = "done"
    /\ threads[t].once
    /\ threads[t].step \in {"cached", "logged"}

\* caller t's call handed its message to a backend
Delivered(t) == threads[t].pc = "done" /\ threads[t].out # <<>>

\* both callers tested the cache before either had added to it
BothCheckedFirst ==
    /\ StepOf(1, "add") # 0 /\ StepOf(2, "add") # 0
    /\ StepOf(1, "check") < StepOf(2, "add")
    /\ StepOf(2, "check") < StepOf(1, "add")

\* one caller's call began after the other's had returned
OneAfterTheOther ==
    \/ StepOf(1, "emit") # 0 /\ StepOf(1, "emit") < StepOf(2, "start")
    \/ StepOf(2, "emit") # 0 /\ StepOf(2, "emit") < StepOf(1, "start")
    \/ threads[1].step = "cached" /\ StepOf(1, "check") < StepOf(2, "start")
    \/ threads[2].step = "cached" /\ StepOf(2, "check") < StepOf(1, "start")

\* C21: the test of the cache and the addition to it are two steps.  When two
\* concurrent callers have both returned from log(_, m, once=true) with the
\* same text m, m was delivered by both exactly when both tested the cache
\* before either added to it, and by one of them otherwise; when one call
\* began after the other had returned, m was delivered once.
C21_OnceRace ==
    (OnceDone(1) /\ OnceDone(2) /\ threads[1].message = threads[2].message) =>
        /\ Delivered(1) \/ Delivered(2)
        /\ (Delivered(1) /\ Delivered(2)) <=> BothCheckedFirst
        /\ OneAfterTheOther => ~(Delivered(1) /\ Delivered(2))

\* the interleaving: both callers delivered the same text with once=true
C21_Witness ==
    /\ OnceDone(1) /\ OnceDone(2)
    /\ threads[1].message = threads[2].message
    /\ threads[1].level = threads[2].level
    /\ Delivered(1) /\ Delivered(2)
    /\ threads[1].out = threads[2].out

\* the sequential case: the second call found the text in the cache
C21_WitnessSequential ==
    /\ OnceDone(1) /\ OnceDone(2)
    /\ OneAfterTheOther
    /\ Delivered(1) /\ ~Delivered(2)

\* the backend the level of caller t's call was mapped to when step `step`
\* of the call was taken, None if the level was not mapped
BackendWhen(t, step) ==
    LET m == history[StepOf(t, step)].mapping
    IN IF threads[t].level \in DOMAIN m THEN m[threads[t].level] ELSE None

\* a backend that delivers
Delivers(backend) == backend # None /\ backend.class # "NullOutput"

\* the whole text of caller t's call as backend `backend` hands it over
WholeText(t, backend) ==
    IF backend.class = "StreamOutput" THEN threads[t].message.chars \o <<NL>>
    ELSE threads[t].message.chars

\* C22: a call of Logger.log uses the backend its level was mapped to when
\* the call began, whatever setup calls run while it is in flight: once it
\* has returned it has handed its whole text to that backend in one
\* delivery, unless the cache dropped it, and it has delivered nothing when
\* that backend was absent or the null backend.
C22_BackendResolvedOnce ==
    \A t \in Callers :
        threads[t].pc = "done" =>
            LET backend == BackendWhen(t, "start")
            IN IF ~Delivers(backend) \/ threads[t].step = "cached"
               THEN threads[t].out = <<>>
               ELSE /\ Len(threads[t].out) = 1
                    /\ threads[t].out[1].to = DestinationOf(backend)
                    /\ threads[t].out[1].text = WholeText(t, backend)

\* a setup call replaced the backend of the level while the call was in
\* flight, and the text went to the backend that was replaced
C22_Witness ==
    \E t \in Callers :
        /\ threads[t].pc = "done" /\ threads[t].step = "logged"
        /\ Delivers(BackendWhen(t, "start")) /\ Delivers(BackendWhen(t, "emit"))
        /\ DestinationOf(BackendWhen(t, "start")) # DestinationOf(BackendWhen(t, "emit"))
        /\ threads[t].out[1].to = DestinationOf(BackendWhen(t, "start"))

-----------------------------------------------------------------------------
(* Properties of the dedup cache, checked under SpecAll *)

\* the step is an invocation that went through Logger.log
LogStep == pc = "ready" /\ last' # NoLog

\* C23: no operation removes a text from the dedup cache; the cache changes
\* only in a step that runs Logger.log with once=true, by gaining the
\* message of that call; a step that runs Logger.log with once=false leaves
\* the cache as it was and is never dropped as a duplicate.
C23_CacheMonotonic ==
    [][/\ message_cache \subseteq message_cache'
       /\ message_cache' # message_cache =>
             /\ LogStep /\ last'.once
             /\ message_cache' = message_cache \cup {last'.message}
       /\ (LogStep /\ ~last'.once) =>
             /\ message_cache' = message_cache
             /\ last'.step # "cached"]_vars

\* a call with once=false delivered a text that is in the cache, on a
\* Logger that has been set up, has bidi active and has a derived logger,
\* with both texts still in the cache
C23_Witness ==
    /\ pc = "returned" /\ last # NoLog
    /\ ~last.once /\ last.step = "logged"
    /\ last.message \in message_cache
    /\ message_cache = AllMessages
    /\ bidi_initalized /\ derived # None /\ DOMAIN mapping # {SCREEN}

-----------------------------------------------------------------------------
(* Properties of the bidi reshaping inside Logger.log, checked under Spec *)

\* what follows the message on the verbose ERROR level
TracePart ==
    IF last.level = ERROR /\ verbosity = VERBOSE
    THEN <<NL>> \o trace_text(last.trace, last.exc_info)
    ELSE <<>>

\* C24: a forwarded call went through the reshaping subprocess exactly when
\* bidi is active and the backend of its level is a stream backend.  Then
\* the subprocess was sent the bare message and a newline, nothing of the
\* prefix or the trace, and the text is the prefix as given, the reshaped
\* message as the subprocess returned it, the trace as given and the
\* newline.  Otherwise nothing was sent and the text holds the message as
\* given, so a callback or system-log backend is handed no reshaped text.
C24_BidiBareMessage ==
    Forwarded =>
        /\ last.use_bidi = (bidi_initalized /\ IsStream(mapping[last.level]))
        /\ IF last.use_bidi
           THEN /\ last.sent = Str(last.message.chars \o <<NL>>)
                /\ last.reshaped = Str(Reshape(last.message.chars) \o <<CR>>)
                /\ last.text.chars = PrefixPart(last.prefix) \o last.reshaped.chars
                                       \o TracePart \o NewlinePart
           ELSE /\ last.sent = None
                /\ last.reshaped = last.message
                /\ last.text.chars = PrefixPart(last.prefix) \o last.message.chars
                                       \o TracePart \o NewlinePart
        /\ ~IsStream(mapping[last.level]) =>
              /\ Len(last.out) = 1
              /\ \E i \in 1..Len(last.out[1].text) :
                    SubSeq(last.out[1].text, i, i + Len(last.message.chars) - 1)
                        = last.message.chars

\* bidi active, a stream backend, a prefix and a trace: only the message is
\* reshaped
C24_Witness ==
    /\ Forwarded /\ last.use_bidi /\ last.level = ERROR /\ verbosity = VERBOSE
    /\ last.message = Str(<<"a", "b">>)
    /\ last.prefix = Str(<<"P", ":">>) /\ last.trace = Str(<<"t">>)
    /\ last.sent = Str(<<"a", "b", NL>>)
    /\ last.text = Str(<<"P", ":", " ", "b", "a", CR, NL, "t", NL>>)

\* bidi active and a callback backend: the message is handed over as given
C24_WitnessCallback ==
    /\ Forwarded /\ bidi_initalized /\ mapping[last.level].class = "ClassOutput"
    /\ last.message = Str(<<"a", "b">>) /\ last.prefix = Str(<<"P", ":">>)
    /\ last.out[1].text = <<"P", ":", " ", "a", "b">>

-----------------------------------------------------------------------------
(* Properties of the key of the dedup cache, checked under SpecOnce *)

\* invocation i ran Logger.log with once=true
OnceCall(i) == history[i].last # NoLog /\ history[i].last.once

\* C25: the cache is keyed by the message alone.  Once a call with once=true
\* has delivered a text, every later call with once=true and the same
\* message delivers nothing, whatever its level, its prefix, its backend and
\* the method it was made through.
C25_KeyedByMessage ==
    \A i \in 1..Len(history) : \A j \in (i + 1)..Len(history) :
        (/\ OnceCall(i) /\ OnceCall(j)
         /\ history[i].last.message = history[j].last.message
         /\ history[i].last.out # <<>>) =>
            /\ history[j].last.out = <<>>
            /\ history[j].last.status = "returned"

\* error(m, once=true) after warning(m, once=true), both levels on one
\* active stream: the warning is written, the error is not
C25_Witness ==
    /\ Len(history) = 3
    /\ history[2].call.method = "warning" /\ history[3].call.method = "error"
    /\ history[2].last.message = history[3].last.message
    /\ history[2].last.out # <<>>
    /\ Delivers(history[3].last.logger)
    /\ history[3].last.out = <<>>

\* deprecated_feature(m) after debug(m, once=true) on another backend
C25_WitnessDeprecated ==
    /\ Len(history) = 3
    /\ history[2].call.method = "debug" /\ history[3].call.method = "deprecated_feature"
    /\ history[2].last.message = history[3].last.message
    /\ history[2].last.out # <<>>
    /\ Delivers(history[3].last.logger)
    /\ history[3].last.logger # history[2].last.logger
    /\ history[3].last.out = <<>>

\* invocation i got past the backend test and the suppress test
Reaches(i) ==
    /\ history[i].last # NoLog
    /\ Delivers(history[i].last.logger)
    /\ ~history[i].last.suppress

\* C26: a call with once=true that is dropped because it is suppressed or
\* because its level has no backend or the null one adds nothing to the
\* cache: the cache holds the messages of the once=true calls that got past
\* both tests and no other, and such a call delivers its text, in one
\* delivery, exactly when no earlier once=true call with its message got
\* past both tests.
C26_DroppedNotCached ==
    /\ message_cache =
          {history[i].last.message : i \in {k \in 1..Len(history) : OnceCall(k) /\ Reaches(k)}}
    /\ \A j \in 1..Len(history) :
          (OnceCall(j) /\ Reaches(j)) =>
              Len(history[j].last.out) =
                  IF \E i \in 1..(j - 1) :
                        /\ OnceCall(i) /\ Reaches(i)
                        /\ history[i].last.message = history[j].last.message
                  THEN 0 ELSE 1

\* a suppressed call, then the same text delivered, then dropped as seen
C26_Witness ==
    /\ Len(history) = 3
    /\ \A i \in 1..3 : OnceCall(i) /\ history[i].last.message = history[1].last.message
    /\ history[1].last.suppress /\ Delivers(history[1].last.logger)
    /\ history[1].last.out = <<>>
    /\ Len(history[2].last.out) = 1
    /\ Reaches(3) /\ history[3].last.out = <<>>

\* a call on a level with no backend, a setup, then the same text delivered
C26_WitnessSetup ==
    /\ Len(history) = 3
    /\ OnceCall(1) /\ OnceCall(3)
    /\ history[1].last.logger = None
    /\ IsSetup(2)
    /\ history[3].last.message = history[1].last.message
    /\ history[3].last.level = history[1].last.level
    /\ Len(history[3].last.out) = 1

-----------------------------------------------------------------------------
(* Properties of the Logger's own calls behind a derived logger, checked   *)
(* under SpecDerived                                                       *)

\* the call ran Logger.log on `level` with the Logger's backend of that
\* level and delivered as that backend does
RanOnLogger(level) ==
    /\ last' # NoLog
    /\ last'.level = level
    /\ last'.logger = mapping_get(level)
    /\ Delivers(mapping_get(level)) /\ ~last'.suppress /\ last'.step # "cached"
          => Len(last'.out) = 1

\* C27: a method that has no override, called through a derived logger, is
\* the Logger's own bound method and what it calls in turn is the Logger's:
\* deprecation_warning reports a new message through the Logger's
\* handle_error, on the ERROR level, also when the derived logger overrides
\* handle_error, and warning, error, info and handle_error go through the
\* Logger's log whatever else the derived logger overrides.
C27_OverridesNotSeenInside ==
    [][(ProxyStep /\ call'.method \notin DOMAIN derived.overrides) =>
        /\ call'.attr = Method("logger", call'.method)
        /\ CASE call'.method = "deprecation_warning" ->
                   IF call'.message \in deprecation_cache THEN last' = NoLog
                   ELSE /\ RanOnLogger(ERROR)
                        /\ deprecation_cache' = deprecation_cache \cup {call'.message}
             [] call'.method = "warning" -> RanOnLogger(WARNING)
             [] call'.method = "error" -> RanOnLogger(ERROR)
             [] call'.method = "handle_error" -> RanOnLogger(ERROR)
             [] call'.method = "info" -> RanOnLogger(INFO)]_vars

\* the derived logger replaces handle_error, and deprecation_warning called
\* through it is written to the error stream all the same
C27_Witness ==
    /\ pc = "returned" /\ "via" \in DOMAIN call
    /\ call.method = "deprecation_warning"
    /\ "handle_error" \in DOMAIN derived.overrides
    /\ derived.overrides["handle_error"].wrapper = "replacing"
    /\ last # NoLog /\ last.level = ERROR
    /\ Len(last.out) = 1 /\ last.out[1].to = STDERR

\* the derived logger replaces error, and handle_error called through it
\* still delivers on the ERROR level
C27_WitnessOther ==
    /\ pc = "returned" /\ "via" \in DOMAIN call
    /\ call.method = "handle_error"
    /\ DOMAIN derived.overrides = {"error", "warning"}
    /\ last # NoLog /\ last.level = ERROR /\ Len(last.out) = 1


====
